---- MODULE Spec2Model ----
(***************************************************************************)
(* ExB-session: capture of a live map session into a portal item and its   *)
(* restoration (workspace-manager).  The live map, the view camera, the    *)
(* portal item store and the position of a running loadMapSession are the  *)
(* state; every handler of the manager is an action (a load is a chain of  *)
(* actions, one per step between its awaits).                              *)
(***************************************************************************)
EXTENDS Integers, Sequences, FiniteSets, TLC

(***************************************************************************)
(* Values.  An optional string field that the JSON document does not carry *)
(* is Absent; "" is the empty string; both are falsy in the source.        *)
(***************************************************************************)
Absent == "absent"
Null == "null"

Truthy(s) == s \notin {Absent, Null, ""}

\* An optional integer (LayerConfig.order, WorkspacePayload.modified).
NoOrder == [tag |-> "absent", v |-> 0]
Order(n) == [tag |-> "val", v |-> n]
NoTime == [tag |-> "absent", v |-> 0]
Time(n) == [tag |-> "val", v |-> n]

Ids == {"a", "b", "c"}
Urls == {"u1", "u2"}

\* Bounds of the explored behaviours.
MaxLoads == 2
MaxUser == 4
MaxFaults == 1
MaxStore == 3
MaxLive == 3

Min(x, y) == IF x < y THEN x ELSE y
Max(x, y) == IF x > y THEN x ELSE y

Range(s) == {s[i] : i \in DOMAIN s}

RemoveAt(s, i) == [k \in 1..(Len(s) - 1) |-> IF k < i THEN s[k] ELSE s[k + 1]]

InsertAt(s, p, x) ==
  [k \in 1..(Len(s) + 1) |-> IF k < p THEN s[k] ELSE IF k = p THEN x ELSE s[k - 1]]

(***************************************************************************)
(* Host conversions.  A live renderer / extent object and its JSON form    *)
(* are different values; toJSON and fromJSON convert between them.         *)
(***************************************************************************)
\* renderer.toJSON()
RendererToJSON(r) ==
  CASE r = "R1" -> "r1"
    [] r = "R2" -> "r2"
    [] OTHER -> Absent

\* fromJSON(cfg.renderer) of esri/renderers/support/jsonUtils: null for no JSON.
\* The JSON "bad" is one the host cannot turn into a renderer (the call throws).
RendererFromJSON(j) ==
  CASE j = "r1" -> "R1"
    [] j = "r2" -> "R2"
    [] OTHER -> Null

RendererThrows(j) == j = "bad"

\* view.extent.toJSON() and Extent.fromJSON
ExtentToJSON(e) ==
  CASE e = "E1" -> "e1"
    [] e = "E2" -> "e2"
    [] OTHER -> Absent

ExtentFromJSON(j) ==
  CASE j = "e1" -> "E1"
    [] j = "e2" -> "E2"
    [] OTHER -> Absent

\* The camera the view ends at after goTo(extent) and after goTo({zoom}).
CameraAtExtent(e) == [extent |-> e, zoom |-> IF e = "E1" THEN "z1" ELSE "z2"]
CameraAtZoom(z) == [extent |-> IF z = "z1" THEN "E1" ELSE "E2", zoom |-> z]

(***************************************************************************)
(* Operational layers.  A live layer is                                    *)
(*   [id, type, url, visible, opacity, renderer, definitionExpression,     *)
(*    loaded]                                                              *)
(* and a LayerConfig of a payload is                                       *)
(*   [id, type, url, visible, opacity, renderer, definitionExpression,     *)
(*    order].                                                              *)
(* Opacity is in tenths (10 = 1.0).  Indices of the source are 0-based,    *)
(* those of a TLA+ sequence 1-based.                                       *)
(***************************************************************************)

FindByIdMissed(layers, id) == 0

\* map.layers.find(l => l.id === cfg.id): the first match, 0 when there is none.
FindById(layers, id) ==
  LET hits == {i \in DOMAIN layers : layers[i].id = id}
  IN IF hits = {} THEN 0 ELSE CHOOSE i \in hits : \A j \in hits : i <= j

FindByUrlMissed(layers, url) == 0

\* map.layers.find(l => l.url === cfg.url)
FindByUrl(layers, url) ==
  LET hits == {i \in DOMAIN layers : layers[i].url = url}
  IN IF hits = {} THEN 0 ELSE CHOOSE i \in hits : \A j \in hits : i <= j

ReorderNever(layers, i, order) == layers

\* map.reorder(layer, index) of the host map: the layer at position i moves to
\* the 0-based index, clamped to the list; an undefined index means the last place.
Reorder(layers, i, order) ==
  LET last == Len(layers) - 1
      want == IF order.tag = "val" THEN order.v ELSE last
      idx == Max(0, Min(want, last))
  IN IF i = 0 THEN layers ELSE InsertAt(RemoveAt(layers, i), idx + 1, layers[i])

\* new FeatureLayer / new MapImageLayer ({url, id, title}): host defaults for the rest.
NewLayer(cfg) ==
  [id |-> cfg.id, type |-> cfg.type, url |-> cfg.url, visible |-> TRUE,
   opacity |-> 10, renderer |-> Absent,
   definitionExpression |-> IF cfg.type = "feature" THEN Null ELSE Absent,
   loaded |-> FALSE]

\* 'definitionExpression' in layer: a property of the feature layer class.
HasDefinitionExpression(layer) == layer.type = "feature"

ReconstructibleAny(cfg) == TRUE

\* The kinds restoreLayerConfig has a constructor for.
Reconstructible(cfg) == cfg.type \in {"feature", "map-image"}

RecreateFailedUncaught(added, cfg) ==
  [layers |-> added, at |-> 0, created |-> TRUE, threw |-> TRUE, warns |-> <<>>]

\* The catch around the construction: the load failed with the new layer already
\* added to the map; the failure is logged and null returned.
RecreateFailed(added, cfg) ==
  [layers |-> added, at |-> 0, created |-> TRUE, threw |-> FALSE,
   warns |-> <<[what |-> "recreate", id |-> cfg.id]>>]

\* restoreLayerConfig(map, cfg).  down is the set of urls whose layer load fails.
\* Result: the layer list, the position of the returned layer (0 for null), the
\* warnings logged, whether a layer was created and whether the call threw.
restoreLayerConfig(layers, cfg, down) ==
  LET byId == FindById(layers, cfg.id)
      byUrl == IF byId = 0 /\ Truthy(cfg.url) THEN FindByUrl(layers, cfg.url) ELSE 0
      found == IF byId # 0 THEN byId ELSE byUrl
      create == found = 0 /\ Truthy(cfg.url) /\ Reconstructible(cfg)
      loadOk == cfg.url \notin down
      added == IF create
               THEN Append(layers, [NewLayer(cfg) EXCEPT !.loaded = loadOk])
               ELSE layers
      at == IF create THEN Len(added) ELSE found
      old == added[at]
      json == RendererFromJSON(cfg.renderer)
      styled == [old EXCEPT !.renderer = IF json # Null THEN json ELSE old.renderer,
                            !.visible = cfg.visible,
                            !.opacity = cfg.opacity,
                            !.definitionExpression =
                               IF cfg.definitionExpression # Absent
                                    /\ HasDefinitionExpression(old)
                               THEN cfg.definitionExpression ELSE @]
  IN IF create /\ ~loadOk
     THEN RecreateFailed(added, cfg)
     ELSE IF at = 0
     THEN [layers |-> layers, at |-> 0, created |-> FALSE, threw |-> FALSE,
           warns |-> <<[what |-> "missing", id |-> cfg.id]>>]
     ELSE IF RendererThrows(cfg.renderer)
     THEN [layers |-> added, at |-> 0, created |-> create, threw |-> TRUE,
           warns |-> <<>>]
     ELSE [layers |-> [added EXCEPT ![at] = styled], at |-> at, created |-> create,
           threw |-> FALSE, warns |-> <<>>]

CfgOfShown(layer, idx) ==
  [id |-> layer.id, type |-> layer.type,
   url |-> IF Truthy(layer.url) THEN layer.url ELSE Absent,
   visible |-> TRUE, opacity |-> layer.opacity,
   renderer |-> Absent, definitionExpression |-> layer.definitionExpression,
   order |-> Order(idx)]

\* The LayerConfig extractLayerConfigs builds for the layer at 0-based index idx.
CfgOf(layer, idx) ==
  [id |-> layer.id, type |-> layer.type,
   url |-> IF Truthy(layer.url) THEN layer.url ELSE Absent,
   visible |-> layer.visible, opacity |-> layer.opacity,
   renderer |-> IF Truthy(layer.renderer) THEN RendererToJSON(layer.renderer) ELSE Absent,
   definitionExpression |-> layer.definitionExpression,
   order |-> Order(idx)]

\* The configs numbered by their place in the output.
extractLayerConfigsRenumbered(layers, failed) ==
  LET all == [i \in DOMAIN layers |-> [i |-> i, l |-> layers[i]]]
      kept == SelectSeq(all, LAMBDA e : e.i \notin failed)
  IN [k \in DOMAIN kept |-> CfgOf(kept[k].l, k - 1)]

\* One failure ends the extraction.
extractLayerConfigsAborting(layers, failed) ==
  IF failed # {} THEN <<>> ELSE [i \in DOMAIN layers |-> CfgOf(layers[i], i - 1)]

\* extractLayerConfigs(layers).  failed is the set of positions whose extraction throws.
extractLayerConfigs(layers, failed) ==
  LET all == [i \in DOMAIN layers |-> [i |-> i, cfg |-> CfgOf(layers[i], i - 1)]]
      kept == SelectSeq(all, LAMBDA e : e.i \notin failed)
  IN [k \in DOMAIN kept |-> kept[k].cfg]

(***************************************************************************)
(* Basemaps.  A live basemap is                                            *)
(*   [id, portalItemId, title, baseLayers, referenceLayers, loaded]        *)
(* with layers [url, type, opacity, visible]; a BasemapSnapshot is         *)
(*   [present, id, portalItemId, title, baseLayers, referenceLayers]       *)
(* with BasemapLayerInfo [url, type, opacity, visible, styleUrl].          *)
(***************************************************************************)

\* A layer object whose properties cannot be read: the try block throws.
SerializeThrows(layer) == layer.type = "broken"

serializeBasemapLayerBlank(layer) ==
  [ok |-> TRUE,
   info |-> [url |-> IF Truthy(layer.url) THEN layer.url ELSE "", type |-> layer.type,
             opacity |-> layer.opacity, visible |-> layer.visible,
             styleUrl |-> Absent]]

\* serializeBasemapLayer(layer): the info, with ok FALSE for the null result.
serializeBasemapLayer(layer) ==
  LET url == IF Truthy(layer.url) THEN layer.url ELSE ""
  IN [ok |-> url # "" /\ ~SerializeThrows(layer),
      info |-> [url |-> url, type |-> layer.type, opacity |-> layer.opacity,
                visible |-> layer.visible,
                styleUrl |-> IF layer.type = "vector-tile" /\ Truthy(layer.url)
                             THEN layer.url ELSE Absent]]

SerializeAll(ls) ==
  LET all == [i \in DOMAIN ls |-> serializeBasemapLayer(ls[i])]
      kept == SelectSeq(all, LAMBDA r : r.ok)
  IN [k \in DOMAIN kept |-> kept[k].info]

\* snapshotBasemap(basemap)
snapshotBasemap(basemap) ==
  [present |-> TRUE,
   id |-> IF Truthy(basemap.id) THEN basemap.id ELSE "",
   portalItemId |-> basemap.portalItemId,
   title |-> IF Truthy(basemap.title) THEN basemap.title ELSE "",
   baseLayers |-> SerializeAll(basemap.baseLayers),
   referenceLayers |-> SerializeAll(basemap.referenceLayers)]

NoSnapshot ==
  [present |-> FALSE, id |-> "", portalItemId |-> Absent, title |-> "",
   baseLayers |-> <<>>, referenceLayers |-> <<>>]

\* A descriptor the layer constructor rejects: the try block throws and
\* deserializeBasemapLayer returns null.
DeserializeThrows(info) == info.url = "bad"

\* deserializeBasemapLayer(info): the class of layer constructed is its type.
deserializeBasemapLayer(info) ==
  [url |-> IF info.type = "vector-tile" /\ Truthy(info.styleUrl)
           THEN info.styleUrl ELSE info.url,
   type |-> CASE info.type = "tile" -> "tile"
              [] info.type = "vector-tile" -> "vector-tile"
              [] info.type = "map-image" -> "map-image"
              [] OTHER -> "tile",
   opacity |-> info.opacity,
   visible |-> info.visible]

\* infos.map(deserializeBasemapLayer).filter(Boolean)
DeserializeAll(infos) ==
  LET made == SelectSeq(infos, LAMBDA info : ~DeserializeThrows(info))
  IN [i \in DOMAIN made |-> deserializeBasemapLayer(made[i])]

\* The registry behind Basemap.fromId: the well-known basemaps of the host.
WellKnownIds == {"topo"}

NoBasemap ==
  [id |-> Absent, portalItemId |-> Absent, title |-> "", baseLayers |-> <<>>,
   referenceLayers |-> <<>>, loaded |-> FALSE]

\* Basemap.fromId(id): NoBasemap stands for the undefined result.
BasemapFromId(id) ==
  IF id \in WellKnownIds
  THEN [id |-> id, portalItemId |-> Absent, title |-> id,
        baseLayers |-> <<[url |-> "wk", type |-> "tile", opacity |-> 10, visible |-> TRUE]>>,
        referenceLayers |-> <<>>, loaded |-> FALSE]
  ELSE NoBasemap

\* new Basemap({portalItem: {id}}) after a successful load(): the host gives it
\* an id of its own and the layers of the portal item.
PortalBasemap(itemId) ==
  [id |-> "generated", portalItemId |-> itemId, title |-> itemId,
   baseLayers |-> <<[url |-> "pi", type |-> "tile", opacity |-> 10, visible |-> TRUE]>>,
   referenceLayers |-> <<>>, loaded |-> TRUE]

RebuildableAlways(base) == TRUE

\* if (baseLayers.length > 0): a basemap is built only around a base layer.
Rebuildable(base) == Len(base) > 0

\* restoreBasemapFromSnapshot(snapshot).  portalOk: the load of the portal-item
\* basemap succeeds.  Result: the basemap (NoBasemap for null) and the rungs tried.
restoreBasemapFromSnapshot(snapshot, portalOk) ==
  LET tryPortal == Truthy(snapshot.portalItemId)
      tryId == Truthy(snapshot.id)
      wellKnown == BasemapFromId(snapshot.id)
      tryRebuild == Len(snapshot.baseLayers) > 0
      base == DeserializeAll(snapshot.baseLayers)
      rebuilt == [id |-> IF Truthy(snapshot.id) THEN snapshot.id ELSE "generated",
                  portalItemId |-> Absent, title |-> snapshot.title,
                  baseLayers |-> base,
                  referenceLayers |-> DeserializeAll(snapshot.referenceLayers),
                  loaded |-> FALSE]
      tried1 == IF tryPortal THEN <<"portalItem">> ELSE <<>>
      tried2 == IF tryId THEN tried1 \o <<"fromId">> ELSE tried1
      tried3 == IF tryRebuild THEN tried2 \o <<"rebuild">> ELSE tried2
  IN IF tryPortal /\ portalOk
     THEN [basemap |-> PortalBasemap(snapshot.portalItemId), tried |-> tried1]
     ELSE IF tryId /\ wellKnown # NoBasemap
     THEN [basemap |-> wellKnown, tried |-> tried2]
     ELSE IF tryRebuild /\ Rebuildable(base)
     THEN [basemap |-> rebuilt, tried |-> tried3]
     ELSE [basemap |-> NoBasemap, tried |-> tried3]

UnrestoredCleared(old) == NoBasemap

\* No rung succeeded: map.basemap is not assigned, only a warning is logged.
Unrestored(old) == old

\* The ladder with the well-known id tried before the portal item.
RestoreBasemapStepIdFirst(old, ms, portalOk, portalOk2, loadOk) ==
  LET snap == ms.basemapSnapshot
      wellKnown == BasemapFromId(ms.basemapId)
      okB == Truthy(ms.basemapId) /\ wellKnown # NoBasemap
      tryA == ~okB /\ snap.present /\ Truthy(snap.portalItemId)
      okA == tryA /\ portalOk
      triedB == IF Truthy(ms.basemapId) THEN <<"fromId">> ELSE <<>>
      triedA == IF tryA THEN triedB \o <<"portalItem">> ELSE triedB
  IN [basemap |-> IF okB THEN [wellKnown EXCEPT !.loaded = loadOk]
                  ELSE IF okA THEN PortalBasemap(snap.portalItemId)
                  ELSE old,
      restored |-> okA \/ okB,
      failed |-> tryA /\ ~portalOk,
      tried |-> triedA,
      warns |-> IF okA \/ okB THEN <<>> ELSE <<[what |-> "basemapNone", id |-> ""]>>]

\* Step 1 of loadMapSession (rungs 1-A, 1-B, 1-C).  portalOk, portalOk2: the
\* portal-item loads of rung 1-A and of restoreBasemapFromSnapshot succeed; loadOk:
\* the load() whose failure rungs 1-B and 1-C swallow succeeds.
RestoreBasemapStep(old, ms, portalOk, portalOk2, loadOk) ==
  LET snap == ms.basemapSnapshot
      tryA == snap.present /\ Truthy(snap.portalItemId)
      okA == tryA /\ portalOk
      tryB == ~okA /\ Truthy(ms.basemapId)
      wellKnown == BasemapFromId(ms.basemapId)
      okB == tryB /\ wellKnown # NoBasemap
      tryC == ~okA /\ ~okB /\ snap.present
      fromSnap == restoreBasemapFromSnapshot(snap, portalOk2)
      okC == tryC /\ fromSnap.basemap # NoBasemap
      triedA == IF tryA THEN <<"portalItem">> ELSE <<>>
      triedB == IF tryB THEN triedA \o <<"fromId">> ELSE triedA
      triedC == IF tryC THEN triedB \o fromSnap.tried ELSE triedB
      warnA == IF tryA /\ ~okA THEN <<[what |-> "basemapPortalItem", id |-> ""]>> ELSE <<>>
      warnNone == IF ~okA /\ ~okB /\ ~okC
                  THEN <<[what |-> "basemapNone", id |-> ""]>> ELSE <<>>
  IN [basemap |-> IF okA THEN PortalBasemap(snap.portalItemId)
                  ELSE IF okB THEN [wellKnown EXCEPT !.loaded = loadOk]
                  ELSE IF okC THEN [fromSnap.basemap EXCEPT
                                      !.loaded = fromSnap.basemap.loaded \/ loadOk]
                  ELSE Unrestored(old),
      restored |-> okA \/ okB \/ okC,
      failed |-> (tryA /\ ~portalOk) \/ (tryC /\ Truthy(snap.portalItemId) /\ ~portalOk2),
      tried |-> triedC,
      warns |-> warnA \o warnNone]

(***************************************************************************)
(* The payload.  WorkspacePayload is [valid, created, modified, mapSession,*)
(* data]; valid is "true", "false" or Absent.  MapSessionState is          *)
(* [basemapId, basemapSnapshot, extent, zoom, hasLayers, layers], where    *)
(* hasLayers says that layers is an array.                                 *)
(***************************************************************************)

AfterCaptureHidden(m, failed) ==
  [m EXCEPT !.layers = [i \in DOMAIN m.layers |-> [m.layers[i] EXCEPT !.visible = FALSE]]]

\* The live map after buildPayload: the basemap, the view and the layers are only
\* read (map.layers.toArray() is a copy, toJSON builds new objects), also when
\* the extraction of a layer throws.
AfterCapture(m, failed) == m

\* buildPayload(data, jimuMapView) at time now; failed: the positions of the
\* layers whose extraction throws.
buildPayload(data, m, cam, now, failed) ==
  [valid |-> "true",
   created |-> now,
   modified |-> NoTime,
   mapSession |->
     [basemapId |-> IF m.basemap # NoBasemap /\ Truthy(m.basemap.id)
                    THEN m.basemap.id ELSE Absent,
      basemapSnapshot |-> IF m.basemap # NoBasemap
                          THEN snapshotBasemap(m.basemap) ELSE NoSnapshot,
      extent |-> ExtentToJSON(cam.extent),
      zoom |-> cam.zoom,
      hasLayers |-> TRUE,
      layers |-> extractLayerConfigs(m.layers, failed)],
   data |-> data]

(***************************************************************************)
(* State.                                                                  *)
(*   map, camera  the live map (basemap, operational layers) and the view  *)
(*   store        the portal items, in order of creation: item k is        *)
(*                store[k] = [title, doc, src, born, writer, deleted]; src *)
(*                remembers the live map a saved document was captured     *)
(*                from, born the time of the first save, writer the        *)
(*                operation that wrote doc last                            *)
(*   down         the urls whose layer cannot be loaded                    *)
(*   ld           the running (or last) loadMapSession: its step pc, the   *)
(*                item, the fetched payload, the next config i, the number *)
(*                of layers it created, whether it runs on the result of   *)
(*                an earlier load of the same payload (again) or on a map  *)
(*                with the layers its payload was captured from (fresh),   *)
(*                the rungs of the basemap ladder it attempted (tried)     *)
(*   pre          the live map and camera when the running load began      *)
(*   hist         the payload and layer list of the last completed load    *)
(*   warns        what the running load logged with console.warn           *)
(*   faults       the failures of the host met by the running operation    *)
(*   result       operation and outcome of the last finished operation     *)
(*   req          what the running or last operation was given (a user, a  *)
(*                view), the remote calls it issued in order, the reply of *)
(*                the store to its item request, the message of its error  *)
(*                and what it returned                                     *)
(*   budget, now  the loads, user operations and host failures left to     *)
(*                explore (an operation that fails before its first effect *)
(*                is not counted), and the clock                           *)
(***************************************************************************)
VARIABLES map, camera, store, down, ld, pre, hist, warns, faults, result, req,
          budget, now, widget

vars ==
  <<map, camera, store, down, ld, pre, hist, warns, faults, result, req, budget, now,
    widget>>

NoPayload ==
  [valid |-> Absent, created |-> 0, modified |-> NoTime,
   mapSession |-> [basemapId |-> Absent, basemapSnapshot |-> NoSnapshot,
                   extent |-> Absent, zoom |-> Absent, hasLayers |-> FALSE,
                   layers |-> <<>>],
   data |-> [id |-> "", label |-> ""]]

NoSource == [ok |-> FALSE, failed |-> {}, map |-> [basemap |-> NoBasemap, layers |-> <<>>],
             camera |-> [extent |-> Absent, zoom |-> Absent]]

NoHistory == [ok |-> FALSE, payload |-> NoPayload, layers |-> <<>>, faults |-> {}]

IdleLoad ==
  [pc |-> "Idle", item |-> 0, payload |-> NoPayload, i |-> 0, created |-> 0,
   again |-> FALSE, fresh |-> FALSE, tried |-> <<>>]

\* No operation is in flight.
Quiet == ld.pc \in {"Idle", "Done", "Failed"}

Warn(what, id) == [what |-> what, id |-> id]

\* The live map has the layers (id, url, type) the source map had, in any order
\* and in any style.
SameLayersAs(src, m) ==
  /\ src.ok
  /\ Len(m.layers) = Len(src.map.layers)
  /\ {[id |-> l.id, url |-> l.url, type |-> l.type] : l \in Range(m.layers)}
       = {[id |-> l.id, url |-> l.url, type |-> l.type] : l \in Range(src.map.layers)}

(***************************************************************************)
(* The remote calls of an operation.  A reply of the store is [kind, msg]: *)
(* "ok", "unsuccessful" (the response has no success flag; msg is its      *)
(* error.message, if any) or "rejected" (esriRequest throws; msg is the    *)
(* message of the error thrown).                                           *)
(***************************************************************************)
NoReply == [kind |-> "none", msg |-> Absent]
OkReply == [kind |-> "ok", msg |-> Absent]

WriteReplies ==
  {OkReply, [kind |-> "unsuccessful", msg |-> "m1"],
   [kind |-> "unsuccessful", msg |-> Absent], [kind |-> "rejected", msg |-> "m2"]}

\* The search and data endpoints answer with the data or with an error.
ReadReplies == {OkReply, [kind |-> "rejected", msg |-> "m2"]}

NoRequest ==
  [authed |-> TRUE, hasView |-> TRUE, calls |-> <<>>, reply |-> NoReply,
   msg |-> Absent, out |-> <<>>]

ensurePortalUserLax(authed) == [ok |-> TRUE, calls |-> <<"portalLoad">>]

\* ensurePortalUser(portal): portal.load(), then the test of portal.user.
ensurePortalUser(authed) == [ok |-> authed, calls |-> <<"portalLoad">>]

IssueWithRetry(calls, kind, reply) ==
  IF reply.kind = "ok" THEN Append(calls, kind) ELSE calls \o <<kind, kind>>

\* await esriRequest(url, ...): the request is sent once.
Issue(calls, kind, reply) == Append(calls, kind)

StoreErrorDefault(reply, fallback) ==
  [status |-> IF reply.kind = "rejected" THEN "RequestFailed" ELSE "StoreOperationFailed",
   msg |-> fallback]

\* throw new Error(response?.data?.error?.message || fallback); a rejected request
\* throws its own error.
StoreError(reply, fallback) ==
  [status |-> IF reply.kind = "rejected" THEN "RequestFailed" ELSE "StoreOperationFailed",
   msg |-> IF Truthy(reply.msg) THEN reply.msg ELSE fallback]

Outcome(status, calls, reply, msg) ==
  [status |-> status, calls |-> calls, reply |-> reply, msg |-> msg]

\* The response is tested for data.success.
Checked(calls, kind, reply, fallback) ==
  IF reply.kind = "ok"
  THEN Outcome("ok", Issue(calls, kind, reply), reply, Absent)
  ELSE Outcome(StoreError(reply, fallback).status, Issue(calls, kind, reply), reply,
             StoreError(reply, fallback).msg)

\* The response is read without a test: only a rejected request is an error.
Unchecked(calls, kind, reply) ==
  IF reply.kind = "rejected"
  THEN Outcome("RequestFailed", Issue(calls, kind, reply), reply, reply.msg)
  ELSE Outcome("ok", Issue(calls, kind, reply), reply, Absent)

\* The control flow of saveMapSession up to its throw or return.
SaveFlow(authed, hasView, reply) ==
  LET user == ensurePortalUser(authed)
  IN IF ~user.ok THEN Outcome("Unauthenticated", user.calls, NoReply, "User not authenticated")
     ELSE IF ~hasView
     THEN Outcome("MissingMapView", user.calls, NoReply, "Map view is required to save session")
     ELSE Checked(user.calls, "addItem", reply, "Failed to save workspace session")

\* The control flow of updateMapSession.  hasId: data.id is set.
UpdateFlow(authed, hasView, hasId, reply) ==
  LET user == ensurePortalUser(authed)
  IN IF ~user.ok THEN Outcome("Unauthenticated", user.calls, NoReply, "User not authenticated")
     ELSE IF ~hasView
     THEN Outcome("MissingMapView", user.calls, NoReply, "Map view is required to save session")
     ELSE IF ~hasId
     THEN Outcome("MissingId", user.calls, NoReply, "Cannot update a session without an ID")
     ELSE Checked(user.calls, "update", reply, "Failed to update workspace session")

\* The control flow of listMapSessions.
ListFlow(authed, reply) ==
  LET user == ensurePortalUser(authed)
  IN IF ~user.ok THEN Outcome("Unauthenticated", user.calls, NoReply, "User not authenticated")
     ELSE Unchecked(user.calls, "search", reply)

\* The control flow of deleteMapSession.
DeleteFlow(authed, reply) ==
  LET user == ensurePortalUser(authed)
  IN IF ~user.ok THEN Outcome("Unauthenticated", user.calls, NoReply, "User not authenticated")
     ELSE Checked(user.calls, "delete", reply, "Failed to delete workspace session")

\* The control flow of loadMapSession up to the fetched payload.
FetchFlow(authed, hasView, reply) ==
  LET user == ensurePortalUser(authed)
  IN IF ~user.ok THEN Outcome("Unauthenticated", user.calls, NoReply, "User not authenticated")
     ELSE IF ~hasView
     THEN Outcome("MissingMapView", user.calls, NoReply, "Map view is required to load session")
     ELSE Unchecked(user.calls, "fetch", reply)

RequestOf(flow, authed, hasView, out) ==
  [authed |-> authed, hasView |-> hasView, calls |-> flow.calls, reply |-> flow.reply,
   msg |-> flow.msg, out |-> out]

\* The failure of the host an operation ended on.
FaultOf(status, kind) ==
  CASE status = "Unauthenticated" -> {"auth"}
    [] status = "MissingMapView" -> {"view"}
    [] status = "MissingId" -> {"id"}
    [] status \in {"StoreOperationFailed", "RequestFailed"} -> {kind}
    [] OTHER -> {}

\* The items of the store that exist.
Live(items) == {k \in DOMAIN items : ~items[k].deleted}

(***************************************************************************)
(* saveMapSession(portal, data, jimuMapView): one action, the whole call.  *)
(* authed, hasView: the portal has a user, the caller passed a view;       *)
(* failed: the layers whose extraction throws; reply: the answer to the    *)
(* addItem request.                                                        *)
(* A save that is refused changes nothing; the refusals are drawn where    *)
(* the store operations are explored (budget.store).                       *)
(***************************************************************************)
SaveMapSession(label, authed, hasView, failed, reply) ==
  LET flow == SaveFlow(authed, hasView, reply)
      payload == buildPayload([id |-> "", label |-> label], map, camera, now, failed)
      built == "addItem" \in Range(flow.calls)
  IN /\ Quiet
     /\ budget.user > 0
     /\ flow.status = "ok" \/ budget.store > 0
     /\ built \/ failed = {}
     /\ faults' = FaultOf(flow.status, "addItem")
                    \cup (IF failed # {} THEN {"extract"} ELSE {})
     /\ faults' # {} => budget.fault > 0
     /\ budget' = [budget EXCEPT
                     !.user = IF built THEN @ - 1 ELSE @,
                     !.fault = IF faults' # {} THEN @ - 1 ELSE @]
     /\ ld' = IdleLoad
     /\ pre' = [map |-> map, camera |-> camera]
     /\ hist' = NoHistory
     /\ warns' = <<>>
     /\ result' = [op |-> "save", status |-> flow.status]
     /\ req' = RequestOf(flow, authed, hasView, <<>>)
     /\ now' = IF built THEN now + 1 ELSE now
     /\ store' = IF flow.status = "ok"
                 THEN Append(store,
                        [title |-> label, doc |-> payload,
                         src |-> [ok |-> failed = {}, failed |-> failed, map |-> map,
                                 camera |-> camera],
                         born |-> payload.created, writer |-> "save",
                         deleted |-> FALSE])
                 ELSE store
     /\ map' = AfterCapture(map, failed)
     /\ UNCHANGED <<camera, down, widget>>

TouchNever(payload, time) == payload

\* payload.modified = new Date().toISOString()
Touch(payload, time) == [payload EXCEPT !.modified = Time(time)]

(***************************************************************************)
(* updateMapSession(portal, data, jimuMapView) with data.id = item.        *)
(***************************************************************************)
UpdateMapSession(item, label, authed, hasView, hasId, failed, reply) ==
  LET flow == UpdateFlow(authed, hasView, hasId, reply)
      payload == Touch(buildPayload([id |-> item, label |-> label], map, camera,
                                    now, failed), now)
      built == "update" \in Range(flow.calls)
  IN /\ Quiet
     /\ budget.store > 0
     /\ item \in Live(store)
     /\ built \/ failed = {}
     /\ faults' = FaultOf(flow.status, "update")
                    \cup (IF failed # {} THEN {"extract"} ELSE {})
     /\ faults' # {} => budget.fault > 0
     /\ budget' = [budget EXCEPT
                     !.store = IF built THEN @ - 1 ELSE @,
                     !.fault = IF faults' # {} THEN @ - 1 ELSE @]
     /\ ld' = IdleLoad
     /\ pre' = [map |-> map, camera |-> camera]
     /\ hist' = NoHistory
     /\ warns' = <<>>
     /\ result' = [op |-> "update", status |-> flow.status]
     /\ req' = RequestOf(flow, authed, hasView, <<>>)
     /\ now' = IF built THEN now + 1 ELSE now
     /\ store' = IF flow.status = "ok"
                 THEN [store EXCEPT
                         ![item] = [@ EXCEPT
                                      !.title = label, !.doc = payload,
                                      !.src = [ok |-> failed = {}, failed |-> failed,
                                               map |-> map,
                                               camera |-> camera],
                                      !.writer = "update"]]
                 ELSE store
     /\ map' = AfterCapture(map, failed)
     /\ UNCHANGED <<camera, down, widget>>

(***************************************************************************)
(* listMapSessions(portal): the items of the user, as {id, label}.         *)
(***************************************************************************)
ListMapSessions(authed, reply) ==
  LET flow == ListFlow(authed, reply)
      found == SelectSeq([k \in DOMAIN store |-> k], LAMBDA k : ~store[k].deleted)
      items == [k \in DOMAIN found |-> [id |-> found[k], label |-> store[found[k]].title]]
  IN /\ Quiet
     /\ budget.store > 0
     /\ faults' = FaultOf(flow.status, "search")
     /\ faults' # {} => budget.fault > 0
     /\ budget' = [budget EXCEPT
                     !.store = IF flow.status = "ok" THEN @ - 1 ELSE @,
                     !.fault = IF faults' # {} THEN @ - 1 ELSE @]
     /\ ld' = IdleLoad
     /\ pre' = [map |-> map, camera |-> camera]
     /\ hist' = NoHistory
     /\ warns' = <<>>
     /\ result' = [op |-> "list", status |-> flow.status]
     /\ req' = RequestOf(flow, authed, TRUE, IF flow.status = "ok" THEN items ELSE <<>>)
     /\ UNCHANGED <<map, camera, store, down, now, widget>>

(***************************************************************************)
(* deleteMapSession(portal, itemId).                                       *)
(***************************************************************************)
DeleteMapSession(item, authed, reply) ==
  LET flow == DeleteFlow(authed, reply)
  IN /\ Quiet
     /\ budget.store > 0
     /\ item \in Live(store)
     /\ faults' = FaultOf(flow.status, "delete")
     /\ faults' # {} => budget.fault > 0
     /\ budget' = [budget EXCEPT
                     !.store = IF flow.status = "ok" THEN @ - 1 ELSE @,
                     !.fault = IF faults' # {} THEN @ - 1 ELSE @]
     /\ ld' = IdleLoad
     /\ pre' = [map |-> map, camera |-> camera]
     /\ hist' = NoHistory
     /\ warns' = <<>>
     /\ result' = [op |-> "delete", status |-> flow.status]
     /\ req' = RequestOf(flow, authed, TRUE, <<>>)
     /\ store' = IF flow.status = "ok"
                 THEN [store EXCEPT ![item] = [@ EXCEPT !.deleted = TRUE]]
                 ELSE store
     /\ UNCHANGED <<map, camera, down, now, widget>>

(***************************************************************************)
(* loadMapSession(portal, itemId, jimuMapView), one action per step.       *)
(***************************************************************************)

\* ensurePortalUser, the view check and the fetch of the item's data.
LoadBegin(item, authed, hasView, fetchOk) ==
  LET flow == FetchFlow(authed, hasView,
                        IF fetchOk THEN OkReply ELSE [kind |-> "rejected", msg |-> "m2"])
  IN /\ Quiet
     /\ budget.load + budget.user > 0
     /\ item \in Live(store)
     /\ warns' = <<>>
     /\ faults' = FaultOf(flow.status, "fetch")
     /\ faults' # {} => budget.fault > 0
     /\ budget' = [budget EXCEPT
                     !.load = IF faults' = {} /\ @ > 0 THEN @ - 1 ELSE @,
                     !.user = IF faults' = {} /\ budget.load = 0 THEN @ - 1 ELSE @,
                     !.fault = IF faults' # {} THEN @ - 1 ELSE @]
     /\ pre' = [map |-> map, camera |-> camera]
     /\ req' = RequestOf(flow, authed, hasView, <<>>)
     /\ UNCHANGED <<map, camera, store, down, hist, now, widget>>
     /\ IF flow.status # "ok"
        THEN /\ ld' = [IdleLoad EXCEPT !.pc = "Failed", !.item = item]
             /\ result' = [op |-> "load", status |-> flow.status]
        ELSE /\ ld' = [IdleLoad EXCEPT
                         !.pc = "Validating", !.item = item,
                         !.payload = store[item].doc,
                         !.again = hist.ok /\ hist.payload = store[item].doc
                                     /\ hist.layers = map.layers
                                     /\ "remove" \notin hist.faults,
                         !.fresh = SameLayersAs(store[item].src, map)]
             /\ result' = [op |-> "load", status |-> "running"]

\* A step that meets a failure of the host takes it from the failures left to
\* explore.
Charged ==
  /\ faults' # faults => budget.fault > 0
  /\ budget' = IF faults' # faults THEN [budget EXCEPT !.fault = @ - 1] ELSE budget

ValidPayloadUnlessFalse(payload) == payload.valid # "false"

\* payload?.valid
ValidPayload(payload) == payload.valid = "true"

\* if (!payload?.valid) throw
LoadValidate ==
  /\ ld.pc = "Validating"
  /\ UNCHANGED <<map, camera, store, down, req, pre, hist, warns, faults, budget,
                 now, widget>>
  /\ IF ValidPayload(ld.payload)
     THEN /\ ld' = [ld EXCEPT !.pc = "RestoringBasemap"]
          /\ UNCHANGED result
     ELSE /\ ld' = [ld EXCEPT !.pc = "Failed"]
          /\ result' = [op |-> "load", status |-> "InvalidPayload"]

\* 1. Restore basemap
LoadRestoreBasemap(portalOk, portalOk2, loadOk) ==
  /\ ld.pc = "RestoringBasemap"
  /\ Truthy(ld.payload.mapSession.basemapSnapshot.portalItemId) \/ (portalOk /\ portalOk2)
  /\ portalOk => portalOk2
  /\ LET r == RestoreBasemapStep(map.basemap, ld.payload.mapSession,
                                 portalOk, portalOk2, loadOk)
     IN /\ map' = [map EXCEPT !.basemap = r.basemap]
        /\ warns' = warns \o r.warns
        /\ faults' = faults
                       \cup (IF r.failed THEN {"portalLoad"} ELSE {})
                       \cup (IF r.restored /\ ~r.basemap.loaded
                             THEN {"basemapLoad"} ELSE {})
  /\ ld' = [ld EXCEPT !.pc = "RestoringCamera",
                       !.tried = RestoreBasemapStep(map.basemap, ld.payload.mapSession,
                                                    portalOk, portalOk2, loadOk).tried]
  /\ UNCHANGED <<camera, store, down, req, pre, hist, result, now, widget>>
  /\ Charged

\* 2. Restore extent / zoom.  goOk: the view.goTo call succeeds.
LoadRestoreCamera(goOk) ==
  /\ ld.pc = "RestoringCamera"
  /\ UNCHANGED <<map, store, down, req, pre, hist, now, widget>>
  /\ LET ms == ld.payload.mapSession
     IN IF Truthy(ms.extent)
        THEN /\ ld' = [ld EXCEPT !.pc = "ReconcilingLayers"]
             /\ UNCHANGED result
             /\ IF goOk
                THEN /\ camera' = CameraAtExtent(ExtentFromJSON(ms.extent))
                     /\ UNCHANGED <<warns, faults>>
                ELSE /\ warns' = Append(warns, Warn("extent", ""))
                     /\ faults' = faults \cup {"goToExtent"}
                     /\ UNCHANGED camera
        ELSE IF ms.zoom # Absent
        THEN IF goOk
             THEN /\ camera' = CameraAtZoom(ms.zoom)
                  /\ ld' = [ld EXCEPT !.pc = "ReconcilingLayers"]
                  /\ UNCHANGED <<warns, faults, result>>
             ELSE /\ ld' = [ld EXCEPT !.pc = "Failed"]
                  /\ result' = [op |-> "load", status |-> "HostError"]
                  /\ faults' = faults \cup {"goToZoom"}
                  /\ UNCHANGED <<camera, warns>>
        ELSE /\ ld' = [ld EXCEPT !.pc = "ReconcilingLayers"]
             /\ UNCHANGED <<camera, warns, faults, result>>
  /\ Charged

SavedLayerIds(cfgs) == {c.id : c \in Range(cfgs)}
SavedLayerUrls(cfgs) == {c.url : c \in {d \in Range(cfgs) : Truthy(d.url)}}

LayersToRemoveAll(layers, cfgs) == DOMAIN layers

LayersToRemoveById(layers, cfgs) ==
  {i \in DOMAIN layers : layers[i].id \notin SavedLayerIds(cfgs)}

LayersToRemoveWithUrl(layers, cfgs) ==
  {i \in DOMAIN layers :
     /\ layers[i].id \notin SavedLayerIds(cfgs)
     /\ Truthy(layers[i].url)
     /\ layers[i].url \notin SavedLayerUrls(cfgs)}

\* The positions of the live layers the removal loop collects in layersToRemove.
LayersToRemove(layers, cfgs) ==
  {i \in DOMAIN layers :
     /\ layers[i].id \notin SavedLayerIds(cfgs)
     /\ ~(Truthy(layers[i].url) /\ layers[i].url \in SavedLayerUrls(cfgs))}

\* The outcome of the load once its last step has run.
Finished(l) == [l EXCEPT !.pc = "Done"]

\* 3. Restore layers: the removal loop.  stuck: the positions whose map.remove throws.
IsArrayAlways(ms) == TRUE

\* Array.isArray(mapSession.layers)
IsArray(ms) == ms.hasLayers

LoadRemoveLayers(stuck) ==
  /\ ld.pc = "ReconcilingLayers"
  /\ ld.i = 0
  /\ UNCHANGED <<camera, store, down, req, pre, now, widget>>
  /\ LET ms == ld.payload.mapSession
         gone == LayersToRemove(map.layers, ms.layers)
         kept == SelectSeq([i \in DOMAIN map.layers |-> [i |-> i, l |-> map.layers[i]]],
                           LAMBDA e : e.i \notin (gone \ stuck))
         left == [k \in DOMAIN kept |-> kept[k].l]
         failedAt == SelectSeq([i \in DOMAIN map.layers |-> i], LAMBDA i : i \in stuck)
     IN IF ~IsArray(ms)
        THEN /\ stuck = {}
             /\ ld' = Finished(ld)
             /\ result' = [op |-> "load", status |-> "ok"]
             /\ hist' = [ok |-> TRUE, payload |-> ld.payload, layers |-> map.layers,
                      faults |-> faults]
             /\ UNCHANGED <<map, warns, faults>>
        ELSE /\ stuck \subseteq gone
             /\ map' = [map EXCEPT !.layers = left]
             /\ warns' = warns \o [k \in DOMAIN failedAt |->
                                     Warn("remove", map.layers[failedAt[k]].id)]
             /\ faults' = faults \cup (IF stuck # {} THEN {"remove"} ELSE {})
             /\ IF Len(ms.layers) = 0
                THEN /\ ld' = Finished(ld)
                     /\ result' = [op |-> "load", status |-> "ok"]
                     /\ hist' = [ok |-> TRUE, payload |-> ld.payload, layers |-> left,
                              faults |-> faults']
                ELSE /\ ld' = [ld EXCEPT !.i = 1]
                     /\ UNCHANGED <<result, hist>>
  /\ Charged

SeenAtStart(current, before) == before

\* await restoreLayerConfig(map, cfg) inside the for loop: each turn reads the
\* live map as the turn before left it, not as the load found it (before).
Seen(current, before) == current

\* 3. Restore layers: one turn of the loop over mapSession.layers.
LoadRestoreLayer ==
  /\ ld.pc = "ReconcilingLayers"
  /\ ld.i >= 1
  /\ UNCHANGED <<camera, store, down, req, pre, budget, now, widget>>
  /\ LET cfgs == ld.payload.mapSession.layers
         cfg == cfgs[ld.i]
         r == restoreLayerConfig(Seen(map.layers, pre.map.layers), cfg, down)
         placed == IF r.at # 0 THEN Reorder(r.layers, r.at, cfg.order) ELSE r.layers
         made == ld.created + (IF r.created THEN 1 ELSE 0)
         dead == r.created /\ cfg.url \in down
     IN /\ map' = [map EXCEPT !.layers = placed]
        /\ warns' = warns \o r.warns
        /\ faults' = faults
                       \cup (IF r.threw /\ ~dead THEN {"renderer"} ELSE {})
                       \cup (IF dead THEN {"layerLoad"} ELSE {})
        /\ IF r.threw
           THEN /\ ld' = [ld EXCEPT !.pc = "Failed", !.created = made]
                /\ result' = [op |-> "load", status |-> "HostError"]
                /\ UNCHANGED hist
           ELSE IF ld.i = Len(cfgs)
           THEN /\ ld' = Finished([ld EXCEPT !.created = made, !.i = ld.i + 1])
                /\ result' = [op |-> "load", status |-> "ok"]
                /\ hist' = [ok |-> TRUE, payload |-> ld.payload, layers |-> placed,
                         faults |-> faults']
           ELSE /\ ld' = [ld EXCEPT !.i = ld.i + 1, !.created = made]
                /\ UNCHANGED <<result, hist>>

(***************************************************************************)
(* The host: the user changes the live map between two operations; what   *)
(* is remembered of the last load (ld) describes the map no longer.       *)
(***************************************************************************)
\* Nothing is remembered of the operations that ran before the change.
Forget(state) ==
  /\ ld' = IdleLoad
  /\ pre' = state
  /\ hist' = NoHistory
  /\ warns' = <<>>
  /\ faults' = {}
  /\ result' = [op |-> "none", status |-> "none"]
  /\ req' = NoRequest

HostLayer(id, url, type) ==
  [id |-> id, type |-> type, url |-> url, visible |-> TRUE, opacity |-> 10,
   renderer |-> Absent,
   definitionExpression |-> IF type = "feature" THEN Null ELSE Absent,
   loaded |-> TRUE]

AddPool ==
  {HostLayer("c", Absent, "graphics"), HostLayer("c", "u2", "feature"),
   HostLayer("b", "u2", "feature"),
   [HostLayer("a", "u1", "feature") EXCEPT !.visible = FALSE]}

MapAddLayer(l) ==
  /\ Quiet
  /\ budget.user > 0
  /\ Len(map.layers) < MaxLive
  /\ l.id \notin {x.id : x \in Range(map.layers)}
  /\ map' = [map EXCEPT !.layers = Append(@, l)]
  /\ budget' = [budget EXCEPT !.user = @ - 1]
  /\ Forget([map |-> map', camera |-> camera])
  /\ UNCHANGED <<camera, store, down, now, widget>>

MapRemoveLayer(i) ==
  /\ Quiet
  /\ budget.user > 0
  /\ i \in DOMAIN map.layers
  /\ map' = [map EXCEPT !.layers = RemoveAt(@, i)]
  /\ budget' = [budget EXCEPT !.user = @ - 1]
  /\ Forget([map |-> map', camera |-> camera])
  /\ UNCHANGED <<camera, store, down, now, widget>>

\* The basemaps the user can switch to in the basemap gallery.
BasemapPool == {PortalBasemap("p1")}

MapSetBasemap(b) ==
  /\ Quiet
  /\ budget.user > 0
  /\ b # map.basemap
  /\ map' = [map EXCEPT !.basemap = b]
  /\ budget' = [budget EXCEPT !.user = @ - 1]
  /\ Forget([map |-> map', camera |-> camera])
  /\ UNCHANGED <<camera, store, down, now, widget>>

(***************************************************************************)
(* Initial states.  Four families of (live map, stored documents):        *)
(*   reconciliation  a stored document with up to two layer configs over   *)
(*                   every id / url / kind / order, on live maps of up to  *)
(*                   two layers; the layers of url u2 cannot be loaded;    *)
(*   basemap/camera  stored documents over the basemap and camera fields;  *)
(*   session         an empty store and a two-layer map, to be saved,      *)
(*                   changed by the user and loaded back;                  *)
(*   store           an empty store and a two-layer map: one save, then    *)
(*                   updates, listings and deletions.                      *)
(***************************************************************************)
TopoBasemap == [BasemapFromId("topo") EXCEPT !.loaded = TRUE]

LiveA(url) ==
  [id |-> "a", type |-> IF Truthy(url) THEN "feature" ELSE "graphics", url |-> url,
   visible |-> TRUE, opacity |-> 10,
   renderer |-> IF Truthy(url) THEN "R1" ELSE Absent,
   definitionExpression |-> IF Truthy(url) THEN "d1" ELSE Absent, loaded |-> TRUE]

LiveB(url) ==
  [id |-> "b", type |-> "feature", url |-> url, visible |-> FALSE, opacity |-> 5,
   renderer |-> Absent, definitionExpression |-> Null, loaded |-> TRUE]

LiveLayerLists ==
  {<<>>}
    \cup {<<LiveA(u)>> : u \in {"u1", Absent}}
    \cup {<<LiveA(u), LiveB(v)>> : u \in {"u1", Absent}, v \in Urls}

UrlKinds ==
  {[url |-> Absent, type |-> "graphics"], [url |-> "u1", type |-> "feature"],
   [url |-> "u2", type |-> "map-image"], [url |-> "u1", type |-> "tile"]}

\* The style a stored config asks for differs from the style of the live layers.
PlainCfgs ==
  {[id |-> i, type |-> k.type, url |-> k.url, visible |-> i # "a",
    opacity |-> IF i = "b" THEN 10 ELSE 5, renderer |-> Absent,
    definitionExpression |-> Absent, order |-> o] :
     i \in Ids, k \in UrlKinds, o \in {NoOrder, Order(0), Order(1)}}

StyledCfgs ==
  {[id |-> "a", type |-> "feature", url |-> "u1", visible |-> FALSE, opacity |-> 5,
    renderer |-> "bad", definitionExpression |-> Absent, order |-> Order(0)],
   [id |-> "c", type |-> "feature", url |-> "u1", visible |-> TRUE, opacity |-> 5,
    renderer |-> "bad", definitionExpression |-> Absent, order |-> NoOrder],
   [id |-> "b", type |-> "feature", url |-> "u2", visible |-> TRUE, opacity |-> 10,
    renderer |-> "r2", definitionExpression |-> "d2", order |-> Order(1)],
   [id |-> "a", type |-> "feature", url |-> "u1", visible |-> TRUE, opacity |-> 5,
    renderer |-> "r2", definitionExpression |-> "d2", order |-> Order(0)]}

Cfgs == PlainCfgs \cup StyledCfgs

\* The configs that stored lists of two are made of.
PairCfgs ==
  {c \in PlainCfgs : c.type \in {"feature", "map-image"} /\ c.order # NoOrder}
    \cup StyledCfgs

\* Lists whose first config cannot be reconstructed (its kind, or no url).
SkippedFirstLists ==
  {<<c, d>> :
     c \in {x \in PlainCfgs : x.id = "c" /\ x.type \in {"tile", "graphics"}
                                /\ x.order = Order(0)},
     d \in {x \in PlainCfgs : x.id = "b" /\ x.url = "u1" /\ x.type = "feature"
                                /\ x.order = Order(0)}}

CfgLists ==
  {<<>>} \cup {<<c>> : c \in Cfgs} \cup {<<c, d>> : c \in PairCfgs, d \in PairCfgs}
    \cup SkippedFirstLists

SessionOf(bmId, snap, extent, zoom, hasLayers, cfgs) ==
  [basemapId |-> bmId, basemapSnapshot |-> snap, extent |-> extent, zoom |-> zoom,
   hasLayers |-> hasLayers, layers |-> cfgs]

DocOf(valid, session) ==
  [valid |-> valid, created |-> 0, modified |-> NoTime, mapSession |-> session,
   data |-> [id |-> "", label |-> "x"]]

ReconcileDocs ==
  {DocOf("true", SessionOf(Absent, NoSnapshot, Absent, Absent, TRUE, cfgs)) :
     cfgs \in CfgLists}

\* Documents that are no session: the marker is missing or false.
ForeignSession ==
  SessionOf("topo", NoSnapshot, "e2", "z2", TRUE,
            <<[id |-> "c", type |-> "feature", url |-> "u1", visible |-> TRUE,
               opacity |-> 5, renderer |-> Absent, definitionExpression |-> Absent,
               order |-> Order(0)]>>)

InvalidDocs == {DocOf(v, ForeignSession) : v \in {Absent, "false"}}

TileInfo == [url |-> "t1", type |-> "tile", opacity |-> 10, visible |-> TRUE,
             styleUrl |-> Absent]

\* A descriptor that cannot be turned into a layer, and descriptors of each kind.
BadInfo == [TileInfo EXCEPT !.url = "bad"]

KindInfos ==
  <<[url |-> "w1", type |-> "web-tile", opacity |-> 10, visible |-> TRUE,
     styleUrl |-> Absent],
    [url |-> "v1", type |-> "vector-tile", opacity |-> 10, visible |-> TRUE,
     styleUrl |-> "s1"],
    [url |-> "m1", type |-> "map-image", opacity |-> 5, visible |-> TRUE,
     styleUrl |-> Absent],
    [url |-> "i1", type |-> "imagery", opacity |-> 10, visible |-> FALSE,
     styleUrl |-> Absent]>>

SnapshotOf(id, itemId, base) ==
  [present |-> TRUE, id |-> id, portalItemId |-> itemId, title |-> "t",
   baseLayers |-> base, referenceLayers |-> <<>>]

BasemapParts ==
  {[id |-> Absent, snap |-> NoSnapshot],
   [id |-> "topo", snap |-> NoSnapshot],
   [id |-> "topo", snap |-> SnapshotOf("topo", "p1", <<TileInfo>>)],
   [id |-> "custom", snap |-> SnapshotOf("custom", Absent, <<TileInfo>>)],
   [id |-> "custom", snap |-> SnapshotOf("custom", "p1", <<>>)],
   [id |-> "custom", snap |-> SnapshotOf("custom", "p1", <<TileInfo>>)],
   [id |-> "custom", snap |-> SnapshotOf("custom", Absent, <<BadInfo>>)],
   [id |-> "custom", snap |-> SnapshotOf("custom", Absent, <<BadInfo, TileInfo>>)],
   [id |-> "custom",
    snap |-> [SnapshotOf("custom", Absent, <<>>) EXCEPT !.referenceLayers = <<TileInfo>>]],
   [id |-> "custom", snap |-> SnapshotOf("custom", Absent, KindInfos)]}

CameraParts ==
  {[extent |-> Absent, zoom |-> Absent], [extent |-> "e2", zoom |-> Absent],
   [extent |-> Absent, zoom |-> "z2"], [extent |-> "e2", zoom |-> "z1"],
   [extent |-> "e2", zoom |-> "z2"]}

LayerParts ==
  {[has |-> FALSE, cfgs |-> <<>>], [has |-> TRUE, cfgs |-> <<>>],
   [has |-> TRUE,
    cfgs |-> <<[id |-> "b", type |-> "feature", url |-> "u2", visible |-> TRUE,
                opacity |-> 10, renderer |-> "r2", definitionExpression |-> Absent,
                order |-> Order(0)]>>]}

BasemapDocs ==
  {DocOf("true", SessionOf(b.id, b.snap, c.extent, c.zoom, l.has, l.cfgs)) :
     b \in BasemapParts, c \in CameraParts, l \in LayerParts}

CustomBasemap ==
  [id |-> "custom", portalItemId |-> Absent, title |-> "mine",
   baseLayers |-> <<[url |-> "t1", type |-> "tile", opacity |-> 10, visible |-> TRUE],
                    [url |-> "", type |-> "tile", opacity |-> 5, visible |-> TRUE],
                    [url |-> "t3", type |-> "broken", opacity |-> 10, visible |-> TRUE],
                    [url |-> "t2", type |-> "vector-tile", opacity |-> 10,
                     visible |-> TRUE]>>,
   referenceLayers |-> <<[url |-> Absent, type |-> "tile", opacity |-> 10,
                          visible |-> TRUE],
                         [url |-> "r1", type |-> "map-image", opacity |-> 10,
                          visible |-> TRUE]>>,
   loaded |-> TRUE]

StartCamera == CameraAtExtent("E1")

Stored(doc) ==
  [title |-> doc.data.label, doc |-> doc, src |-> NoSource, born |-> doc.created,
   writer |-> "save", deleted |-> FALSE]

\* The widget before anything happened: no view, an empty list, nothing in
\* flight.  lists, opening and deleting are the calls of run that have not
\* returned; done is the call of run that returned last.
NoWidget ==
  [view |-> FALSE, workspaces |-> <<>>, loading |-> FALSE, error |-> Null,
   confirmDelete |-> 0, lists |-> 0, opening |-> 0, deleting |-> 0,
   done |-> [kind |-> "none", id |-> 0, ok |-> TRUE, listed |-> FALSE]]

InitCommon ==
  /\ camera = StartCamera
  /\ ld = IdleLoad
  /\ pre = [map |-> map, camera |-> camera]
  /\ hist = NoHistory
  /\ warns = <<>>
  /\ faults = {}
  /\ result = [op |-> "none", status |-> "none"]
  /\ req = NoRequest
  /\ now = 1
  /\ widget = NoWidget

InitReconcile ==
  /\ map \in {[basemap |-> TopoBasemap, layers |-> ls] : ls \in LiveLayerLists}
  /\ store \in {<<Stored(d)>> : d \in ReconcileDocs \cup InvalidDocs}
  /\ down = {"u2"}
  /\ budget = [load |-> MaxLoads, user |-> 0, store |-> 0, fault |-> MaxFaults]
  /\ InitCommon

InitBasemap ==
  /\ map \in {[basemap |-> b, layers |-> <<LiveA("u1")>>] : b \in {TopoBasemap, CustomBasemap}}
  /\ store \in {<<Stored(d)>> : d \in BasemapDocs}
  /\ down = {}
  /\ budget = [load |-> MaxLoads - 1, user |-> 0, store |-> 0, fault |-> MaxFaults]
  /\ InitCommon

InitSession ==
  /\ map = [basemap |-> TopoBasemap, layers |-> <<LiveA("u1"), LiveB("u2")>>]
  /\ store = <<>>
  /\ down \in {{}, {"u2"}}
  /\ budget = [load |-> 0, user |-> MaxUser, store |-> 0, fault |-> MaxFaults - 1]
  /\ InitCommon

InitStore ==
  /\ map \in {[basemap |-> b, layers |-> <<LiveA("u1"), LiveB("u2")>>] :
               b \in {TopoBasemap, CustomBasemap}}
  /\ store = <<>>
  /\ down = {}
  /\ budget = [load |-> 0, user |-> 1, store |-> MaxStore, fault |-> MaxFaults]
  /\ InitCommon

Init == InitReconcile \/ InitBasemap \/ InitSession \/ InitStore

\* The ways the environment answers a call: each failure is met alone, since the
\* first one ends the call.
SaveReplies ==
  {[authed |-> TRUE, hasView |-> TRUE, hasId |-> TRUE, reply |-> r] : r \in WriteReplies}
    \cup {[authed |-> FALSE, hasView |-> TRUE, hasId |-> TRUE, reply |-> OkReply],
          [authed |-> TRUE, hasView |-> FALSE, hasId |-> TRUE, reply |-> OkReply]}

UpdateReplies ==
  SaveReplies \cup {[authed |-> TRUE, hasView |-> TRUE, hasId |-> FALSE, reply |-> OkReply]}

ListReplies ==
  {[authed |-> TRUE, reply |-> r] : r \in ReadReplies}
    \cup {[authed |-> FALSE, reply |-> OkReply]}

DeleteReplies ==
  {[authed |-> TRUE, reply |-> r] : r \in WriteReplies}
    \cup {[authed |-> FALSE, reply |-> OkReply]}

LoadReplies ==
  {[authed |-> TRUE, hasView |-> TRUE, fetchOk |-> TRUE],
   [authed |-> FALSE, hasView |-> TRUE, fetchOk |-> TRUE],
   [authed |-> TRUE, hasView |-> FALSE, fetchOk |-> TRUE],
   [authed |-> TRUE, hasView |-> TRUE, fetchOk |-> FALSE]}

Next ==
  \/ \E r \in SaveReplies, failed \in SUBSET (DOMAIN map.layers) :
       SaveMapSession("x", r.authed, r.hasView, failed, r.reply)
  \/ \E item \in DOMAIN store, r \in UpdateReplies, failed \in SUBSET (DOMAIN map.layers) :
       UpdateMapSession(item, "y", r.authed, r.hasView, r.hasId, failed, r.reply)
  \/ \E r \in ListReplies : ListMapSessions(r.authed, r.reply)
  \/ \E item \in DOMAIN store, r \in DeleteReplies :
       DeleteMapSession(item, r.authed, r.reply)
  \/ \E item \in DOMAIN store, r \in LoadReplies :
       LoadBegin(item, r.authed, r.hasView, r.fetchOk)
  \/ LoadValidate
  \/ \E portalOk \in BOOLEAN, portalOk2 \in BOOLEAN, loadOk \in BOOLEAN :
       LoadRestoreBasemap(portalOk, portalOk2, loadOk)
  \/ \E goOk \in BOOLEAN : LoadRestoreCamera(goOk)
  \/ \E stuck \in SUBSET (DOMAIN map.layers) : LoadRemoveLayers(stuck)
  \/ LoadRestoreLayer
  \/ \E l \in AddPool : MapAddLayer(l)
  \/ \E i \in DOMAIN map.layers : MapRemoveLayer(i)
  \/ \E b \in BasemapPool : MapSetBasemap(b)

Spec == Init /\ [][Next]_vars

(***************************************************************************)
(* The widget: run and the handlers built on it.  A handler that awaits is  *)
(* two steps, the one up to its await and the one after it; in between the  *)
(* other handlers run.                                                      *)
(***************************************************************************)

\* run, up to `await fn()`: setLoading(true), setError(null).
RunStarted(w) == [w EXCEPT !.loading = TRUE, !.error = Null]

\* e?.message || 'An unexpected error occurred'
MessageOf(msg) == IF Truthy(msg) THEN msg ELSE "An unexpected error occurred"

\* run, after `await fn()`: the catch sets the error, the finally clears the
\* flag, whatever else is in flight.
RunEnded(w, threw, msg) ==
  [w EXCEPT !.error = IF threw THEN MessageOf(msg) ELSE @, !.loading = FALSE]

\* The calls of run that have not returned.
InFlight(w) ==
  w.lists + (IF w.opening # 0 THEN 1 ELSE 0) + (IF w.deleting # 0 THEN 1 ELSE 0)

\* What listMapSessions returns from the items that exist.
ListedItems(items) ==
  LET found == SelectSeq([k \in DOMAIN items |-> k], LAMBDA k : ~items[k].deleted)
  IN [k \in DOMAIN found |-> [id |-> found[k], label |-> items[found[k]].title]]

\* prev.filter(w => w.id !== confirmDelete.id)
WithoutId(list, id) == SelectSeq(list, LAMBDA x : x.id # id)

ShownIds(w) == {x.id : x \in Range(w.workspaces)}

WidgetIdle ==
  UNCHANGED <<map, camera, store, down, ld, pre, hist, warns, faults, result, req, now>>

Clicked == budget' = [budget EXCEPT !.user = @ - 1]

\* onActiveViewChange(jmv) and the effect on jimuMapView: refreshList() starts,
\* whatever is in flight.
WidgetViewChange ==
  /\ budget.user > 0
  /\ widget' = [RunStarted(widget) EXCEPT !.view = TRUE, !.lists = @ + 1]
  /\ Clicked
  /\ WidgetIdle

\* The Refresh button (disabled while loading): refreshList() starts.
WidgetRefresh ==
  /\ budget.user > 0
  /\ ~widget.loading
  /\ widget' = [RunStarted(widget) EXCEPT !.lists = @ + 1]
  /\ Clicked
  /\ WidgetIdle

\* refreshList after its await: run returns the list or undefined, and a list
\* replaces the one shown.
WidgetRefreshed(authed, reply) ==
  LET flow == ListFlow(authed, reply)
      ended == RunEnded(widget, flow.status # "ok", flow.msg)
  IN /\ widget.lists > 0
     /\ widget' = [ended EXCEPT
                     !.lists = @ - 1,
                     !.workspaces = IF flow.status = "ok" THEN ListedItems(store) ELSE @,
                     !.done = [kind |-> "list", id |-> 0, ok |-> flow.status = "ok",
                               listed |-> FALSE]]
     /\ UNCHANGED budget
     /\ WidgetIdle

\* handleWorkspaceDelete(ws): the confirmation dialog opens.  The list is under
\* the loading mask while the flag is set.
WidgetAskDelete(k) ==
  /\ budget.user > 0
  /\ ~widget.loading
  /\ k \in DOMAIN widget.workspaces
  /\ widget' = [widget EXCEPT !.confirmDelete = widget.workspaces[k].id]
  /\ Clicked
  /\ WidgetIdle

\* confirmDeleteAction up to its await.
WidgetConfirmDelete ==
  /\ widget.confirmDelete # 0
  /\ widget.deleting = 0
  /\ ~widget.loading
  /\ widget' = [RunStarted(widget) EXCEPT !.deleting = widget.confirmDelete]
  /\ UNCHANGED budget
  /\ WidgetIdle

\* confirmDeleteAction after `await run(() => deleteMapSession(...))`: run has
\* caught what the delete threw, and the handler goes on to filter the list and
\* to close the dialog.
WidgetDeleted(authed, reply) ==
  LET flow == DeleteFlow(authed, reply)
      id == widget.deleting
      ended == RunEnded(widget, flow.status # "ok", flow.msg)
  IN /\ id # 0
     /\ store' = IF flow.status = "ok" /\ id \in DOMAIN store
                 THEN [store EXCEPT ![id] = [@ EXCEPT !.deleted = TRUE]]
                 ELSE store
     /\ widget' = [ended EXCEPT
                     !.deleting = 0,
                     !.workspaces = WithoutId(@, id),
                     !.confirmDelete = 0,
                     !.done = [kind |-> "delete", id |-> id, ok |-> flow.status = "ok",
                               listed |-> id \in ShownIds(widget)]]
     /\ UNCHANGED <<map, camera, down, ld, pre, hist, warns, faults, result, req, now,
                    budget>>

\* handleWorkspaceOpen(ws) up to its await: without a view it only sets the
\* error; with one, run starts and loadMapSession is called.
WidgetOpen(k) ==
  /\ budget.user > 0
  /\ ~widget.loading
  /\ widget.opening = 0
  /\ k \in DOMAIN widget.workspaces
  /\ Clicked
  /\ UNCHANGED <<map, camera, store, down, pre, hist, warns, faults, result, req, now>>
  /\ IF ~widget.view
     THEN /\ widget' = [widget EXCEPT
                          !.error = "No map view available"]
          /\ UNCHANGED ld
     ELSE /\ widget' = [RunStarted(widget) EXCEPT !.opening = widget.workspaces[k].id]
          /\ ld' = IdleLoad

\* loadMapSession(getPortal(), ws.id, jimuMapView) as the widget calls it.
WidgetLoadBegin(authed, fetchOk) ==
  /\ widget.opening # 0
  /\ ld.pc = "Idle"
  /\ LoadBegin(widget.opening, authed, TRUE, fetchOk)

\* handleWorkspaceOpen after its await: the load returned or threw.
WidgetOpened ==
  /\ widget.opening # 0
  /\ ld.pc \in {"Done", "Failed"}
  /\ widget' = [RunEnded(widget, ld.pc = "Failed", result.status) EXCEPT
                  !.opening = 0,
                  !.done = [kind |-> "open", id |-> widget.opening,
                            ok |-> ld.pc = "Done", listed |-> FALSE]]
  /\ UNCHANGED budget
  /\ WidgetIdle

\* The sessions of the portal the widget starts on: one that empties the map
\* and one that keeps a layer and restyles it.
WidgetDocs ==
  {DocOf("true", SessionOf(Absent, NoSnapshot, Absent, Absent, TRUE, cfgs)) :
     cfgs \in {<<>>, <<CfgOfShown(LiveA("u1"), 0)>>}}

WidgetInit ==
  /\ map = [basemap |-> TopoBasemap, layers |-> <<LiveA("u1"), LiveB("u2")>>]
  /\ store \in {<<Stored(d), Stored(e)>> : d \in InvalidDocs, e \in WidgetDocs}
  /\ down = {}
  /\ budget = [load |-> 0, user |-> MaxUser, store |-> 0, fault |-> MaxFaults]
  /\ InitCommon

WidgetNext ==
  \/ WidgetViewChange
  \/ WidgetRefresh
  \/ \E r \in ListReplies : WidgetRefreshed(r.authed, r.reply)
  \/ \E k \in DOMAIN widget.workspaces : WidgetAskDelete(k)
  \/ WidgetConfirmDelete
  \/ \E r \in DeleteReplies : WidgetDeleted(r.authed, r.reply)
  \/ \E k \in DOMAIN widget.workspaces : WidgetOpen(k)
  \/ \E authed \in BOOLEAN, fetchOk \in BOOLEAN : WidgetLoadBegin(authed, fetchOk)
  \/ LoadValidate
  \/ \E portalOk \in BOOLEAN, portalOk2 \in BOOLEAN, loadOk \in BOOLEAN :
       LoadRestoreBasemap(portalOk, portalOk2, loadOk)
  \/ \E goOk \in BOOLEAN : LoadRestoreCamera(goOk)
  \/ \E stuck \in SUBSET (DOMAIN map.layers) : LoadRemoveLayers(stuck)
  \/ LoadRestoreLayer
  \/ WidgetOpened

WidgetSpec == WidgetInit /\ [][WidgetNext]_vars

(***************************************************************************)
(* Properties.                                                             *)
(***************************************************************************)
\* The running or last load got its document from the store.
Fetched ==
  /\ result.op = "load"
  /\ ld.pc # "Idle"
  /\ result.status \notin {"Unauthenticated", "MissingMapView", "RequestFailed"}

Ended == ld.pc \in {"Done", "Failed"}

LayerIds(layers) == [i \in DOMAIN layers |-> layers[i].id]

\* C1: a load whose fetched document has the schema marker absent or false fails
\* with InvalidPayload, and the basemap, the camera and the operational layers are
\* then exactly what they were when the load began.
C1_InvalidPayloadLeavesMapUntouched ==
  (Fetched /\ ld.pc # "Validating" /\ ld.payload.valid # "true")
    => /\ ld.pc = "Failed"
       /\ result.status = "InvalidPayload"
       /\ map = pre.map
       /\ camera = pre.camera

\* A document without the marker, whose session would have changed the map, was rejected.
C1_Witness ==
  /\ Fetched
  /\ result.status = "InvalidPayload"
  /\ ld.payload.valid = Absent
  /\ Len(ld.payload.mapSession.layers) > 0
  /\ Len(map.layers) > 0

\* C2: a load of a payload whose schema marker is true never ends with an error,
\* whatever sub-step fails.
C2_ValidPayloadReachesDone ==
  (Fetched /\ ld.payload.valid = "true") => ld.pc # "Failed"

\* C3: a failure met while removing or restoring one layer does not keep the later
\* configs of the payload from being processed.
C3_LaterConfigsStillProcessed ==
  (Fetched /\ Ended /\ faults \cap {"remove", "renderer", "layerLoad"} # {})
    => \/ ld.pc = "Done"
       \/ ld.i >= Len(ld.payload.mapSession.layers)

\* The layer list holds a layer with the id of the config, or with its url.
HasLayerFor(layers, c) ==
  \E l \in Range(layers) : l.id = c.id \/ (Truthy(c.url) /\ l.url = c.url)

\* The config has a url no layer can be loaded from and matches no layer of the list.
DeadCfg(c, layers) == Truthy(c.url) /\ c.url \in down /\ ~HasLayerFor(layers, c)

\* The config can be restored onto the list: it matches a layer, or a layer can be
\* constructed and loaded for it.
Restorable(c, layers) ==
  \/ HasLayerFor(layers, c)
  \/ (Truthy(c.url) /\ Reconstructible(c) /\ c.url \notin down)

WarningsFor(id) ==
  Cardinality({k \in DOMAIN warns : warns[k].id = id
                                      /\ warns[k].what \in {"recreate", "missing"}})

\* No other config of the list has the id or the url of config k.
Unshared(cfgs, k) ==
  \A j \in DOMAIN cfgs \ {k} : cfgs[j].id # cfgs[k].id /\ cfgs[j].url # cfgs[k].url

\* C4: when exactly one config of the payload points to an unreachable url and
\* matches no live layer (none of the map, none made for another config), and
\* nothing else fails, the load completes without a fatal error, the basemap, the
\* camera and every other restorable layer are restored, and exactly one warning
\* is logged for that config.
C4_OneDeadLayerIsOneWarning ==
  LET ms == ld.payload.mapSession
      dead == {k \in DOMAIN ms.layers : DeadCfg(ms.layers[k], pre.map.layers)}
  IN (/\ Fetched /\ Ended /\ ld.payload.valid = "true" /\ ms.hasLayers
      /\ Cardinality(dead) = 1
      /\ \A k \in dead : Unshared(ms.layers, k)
      /\ faults \subseteq {"layerLoad"})
       => /\ ld.pc = "Done"
          /\ result.status = "ok"
          /\ \A k \in dead : WarningsFor(ms.layers[k].id) = 1
          /\ ms.basemapId \in WellKnownIds => map.basemap.id = ms.basemapId
          /\ Truthy(ms.extent) => camera = CameraAtExtent(ExtentFromJSON(ms.extent))
          /\ \A j \in DOMAIN ms.layers \ dead :
               Restorable(ms.layers[j], pre.map.layers) => HasLayerFor(map.layers, ms.layers[j])

\* A saved session with a well-known basemap and an extent was loaded while the
\* url of one of its two layers was unreachable and the layer gone from the map.
C4_Witness ==
  LET ms == ld.payload.mapSession
      dead == {k \in DOMAIN ms.layers : DeadCfg(ms.layers[k], pre.map.layers)}
  IN /\ Fetched /\ ld.pc = "Done" /\ ms.hasLayers
     /\ Len(ms.layers) = 2
     /\ Cardinality(dead) = 1
     /\ \A k \in dead : Unshared(ms.layers, k) /\ WarningsFor(ms.layers[k].id) = 1
     /\ faults = {"layerLoad"}
     /\ ms.basemapId = "topo"
     /\ Truthy(ms.extent)

Completed == Fetched /\ ld.pc = "Done" /\ ld.payload.mapSession.hasLayers

\* C5 (as the claim states it): after a completed load every live operational
\* layer matches some config of the payload by id or by url.
C5_EveryLiveLayerMatches ==
  Completed =>
    \A l \in Range(map.layers) :
      \E c \in Range(ld.payload.mapSession.layers) :
        l.id = c.id \/ (Truthy(l.url) /\ l.url = c.url)

\* C5 (amended): after a completed load every live operational layer matches some
\* config of the payload by id or by url, or is a layer whose removal failed.
C5_EveryLiveLayerMatchesOrStuck ==
  Completed =>
    \A l \in Range(map.layers) :
      \/ \E c \in Range(ld.payload.mapSession.layers) :
           l.id = c.id \/ (Truthy(l.url) /\ l.url = c.url)
      \/ \E k \in DOMAIN warns : warns[k] = Warn("remove", l.id)

\* A load removed a stale layer, kept one by its url alone and made a new one.
C5_Witness ==
  /\ Completed
  /\ faults = {}
  /\ Len(map.layers) < Len(pre.map.layers) + ld.created
  /\ ld.created > 0
  /\ \E l \in Range(map.layers) :
       l.id \notin SavedLayerIds(ld.payload.mapSession.layers)

\* C6: after a completed load, every config that could be resolved (a layer of the
\* map had its id or its url) or reconstructed (it has a url, its kind is feature or
\* map-image, and the load succeeds) has a live layer with its id or its url.
C6_RestorableConfigsArePresent ==
  Completed =>
    \A c \in Range(ld.payload.mapSession.layers) :
      Restorable(c, pre.map.layers) => HasLayerFor(map.layers, c)

\* A config that cannot be reconstructed was resolved by its url alone.
C6_Witness ==
  /\ Completed
  /\ \E c \in Range(ld.payload.mapSession.layers) :
       /\ HasLayerFor(pre.map.layers, c)
       /\ \A l \in Range(pre.map.layers) : l.id # c.id
       /\ ~Reconstructible(c)
       /\ HasLayerFor(map.layers, c)

\* C7: after a completed load the ids of the live operational layers are exactly
\* the ids of the configs that were resolvable.  The case the claim singles out: a
\* config that matched no layer and whose new layer could not be loaded leaves no
\* layer with its id in the map.
C7_FailedReconstructionLeavesNoLayer ==
  Completed =>
    \A k \in DOMAIN ld.payload.mapSession.layers :
      LET c == ld.payload.mapSession.layers[k]
      IN (DeadCfg(c, pre.map.layers) /\ Unshared(ld.payload.mapSession.layers, k))
           => \A l \in Range(map.layers) : l.id # c.id

\* C8: restoring the same payload a second time onto the map the first restore
\* left yields the same operational layers in the same order, and the second pass
\* creates no layer (every removal the host was asked for succeeded).
C8_SecondRestoreChangesNothing ==
  (Completed /\ ld.again /\ "remove" \notin faults)
    => /\ LayerIds(map.layers) = LayerIds(pre.map.layers)
       /\ ld.created = 0

\* What the round trip promises to reproduce of each layer, in map order.
StyleOf(layers) ==
  [i \in DOMAIN layers |->
     [id |-> layers[i].id, visible |-> layers[i].visible, opacity |-> layers[i].opacity]]

\* C9: a map is captured and the payload is loaded, with no failure of the host,
\* onto a map that has the captured layers again (in any order and style): the
\* load reproduces the captured layer ids, the visibility and opacity of each, the
\* layer order, and the basemap's well-known id and catalog id when it had one.
C9_CaptureThenRestoreReproduces ==
  (Completed /\ ld.fresh /\ faults = {})
    => LET src == store[ld.item].src
       IN /\ StyleOf(map.layers) = StyleOf(src.map.layers)
          /\ src.map.basemap.id \in WellKnownIds
               => map.basemap.id = src.map.basemap.id
          /\ Truthy(src.map.basemap.portalItemId)
               => map.basemap.portalItemId = src.map.basemap.portalItemId

\* The fresh map had the captured layers in another order and another style.
C9_Witness ==
  /\ Completed /\ ld.fresh /\ faults = {}
  /\ Len(map.layers) = 2
  /\ LayerIds(pre.map.layers) # LayerIds(map.layers)
  /\ \E i \in DOMAIN map.layers, j \in DOMAIN pre.map.layers :
       /\ map.layers[i].id = pre.map.layers[j].id
       /\ map.layers[i].visible # pre.map.layers[j].visible

\* The map of the scenario after the user removed b and added c.
ScenarioChanged ==
  /\ store[ld.item].src.ok
  /\ store[ld.item].src.map.layers = <<LiveA("u1"), LiveB("u2")>>
  /\ store[ld.item].src.map.basemap = TopoBasemap
  /\ pre.map.layers = <<LiveA("u1"), HostLayer("c", Absent, "graphics")>>

\* C10: layers a (u1, visible, opacity 1) and b (u2, hidden, opacity 0.5) under
\* basemap "topo" are saved; the user removes b and adds an unrelated layer c;
\* the load of the saved session, with no failure of the host, leaves exactly a
\* then b, b hidden at opacity 0.5, and the basemap "topo".
C10_ScenarioRestoresAThenB ==
  (Completed /\ ScenarioChanged /\ faults = {})
    => /\ StyleOf(map.layers)
            = <<[id |-> "a", visible |-> TRUE, opacity |-> 10],
                [id |-> "b", visible |-> FALSE, opacity |-> 5]>>
       /\ map.basemap.id = "topo"

\* The scenario ran to its end: c was in the map when the load began, b was not.
C10_Witness ==
  /\ Completed /\ ScenarioChanged /\ faults = {}
  /\ ld.created = 1
  /\ "c" \notin Range(LayerIds(map.layers))

\* The basemap step of the running or last load has run.
PastBasemap ==
  /\ Fetched /\ ld.payload.valid = "true"
  /\ ld.pc \notin {"Validating", "RestoringBasemap"}

\* The first position of a rung in the sequence of attempts (0: never attempted).
FirstTry(rung) ==
  IF \E k \in DOMAIN ld.tried : ld.tried[k] = rung
  THEN CHOOSE k \in DOMAIN ld.tried :
         /\ ld.tried[k] = rung
         /\ \A j \in 1..(k - 1) : ld.tried[j] # rung
  ELSE 0

\* The payload has a catalog id, a well-known id and layer descriptors.
FullSnapshot(ms) ==
  /\ ms.basemapSnapshot.present
  /\ Truthy(ms.basemapSnapshot.portalItemId)
  /\ Truthy(ms.basemapId) /\ Truthy(ms.basemapSnapshot.id)
  /\ Len(ms.basemapSnapshot.baseLayers) > 0

\* C11: with a catalog id, a well-known id and layer descriptors in the payload,
\* the catalog-id rung is attempted first; the well-known-id rung is attempted only
\* after the catalog-id rung failed; the rebuild is attempted only after both
\* failed; nothing is attempted after the first success.
C11_LadderIsOrdered ==
  (PastBasemap /\ FullSnapshot(ld.payload.mapSession))
    => LET ms == ld.payload.mapSession
           portalFailed == "portalLoad" \in faults
           idFailed == BasemapFromId(ms.basemapId) = NoBasemap
       IN /\ FirstTry("portalItem") = 1
          /\ ~portalFailed => ld.tried = <<"portalItem">>
          /\ FirstTry("fromId") # 0 => portalFailed /\ FirstTry("fromId") = 2
          /\ FirstTry("rebuild") # 0
               => /\ portalFailed /\ idFailed
                  /\ FirstTry("fromId") # 0
                  /\ FirstTry("fromId") < FirstTry("rebuild")
          /\ (portalFailed /\ ~idFailed) => ld.tried = <<"portalItem", "fromId">>

\* The ladder went down to the rebuild from layer descriptors.
C11_Witness ==
  /\ PastBasemap /\ FullSnapshot(ld.payload.mapSession)
  /\ FirstTry("rebuild") # 0
  /\ map.basemap.id = "custom"

\* The load logged that no strategy restored the basemap.
NoBasemapRestored ==
  \E k \in DOMAIN warns : warns[k].what = "basemapNone"

\* C12: when no rung of the ladder succeeds, or the payload has neither a basemap
\* id nor a snapshot, the live basemap stays the one the map had when the load
\* began, and the load goes on: if it fails, it fails in a later step.
C12_NoRungKeepsBasemap ==
  (PastBasemap /\ NoBasemapRestored)
    => /\ map.basemap = pre.map.basemap
       /\ ld.pc = "Failed" => faults \cap {"goToZoom", "renderer"} # {}

\* A load whose payload had a snapshot that could not be restored ran to its end
\* on a map with a basemap.
C12_Witness ==
  /\ PastBasemap /\ NoBasemapRestored
  /\ ld.pc = "Done"
  /\ ld.payload.mapSession.basemapSnapshot.present
  /\ map.basemap # NoBasemap
  /\ camera # pre.camera

\* C13: when the payload has an extent and a zoom and the move to the extent
\* fails, the view is moved to the zoom.
C13_ExtentFailureFallsBackToZoom ==
  (/\ PastBasemap /\ ld.pc # "RestoringCamera"
   /\ Truthy(ld.payload.mapSession.extent)
   /\ ld.payload.mapSession.zoom # Absent
   /\ "goToExtent" \in faults /\ "goToZoom" \notin faults)
    => camera = CameraAtZoom(ld.payload.mapSession.zoom)

\* The requests to the items of the store (portal.load is not one of them).
ItemCalls == {"addItem", "update", "fetch", "search", "delete"}

Count(calls, kind) == Cardinality({k \in DOMAIN calls : calls[k] = kind})

\* C14: save, update and load called without a live map view fail with
\* MissingMapView before any remote call: no portal load, no item fetch and no
\* store write has been issued.
C14_MissingViewBeforeAnyRemoteCall ==
  (result.op \in {"save", "update", "load"} /\ ~req.hasView)
    => /\ result.status = "MissingMapView"
       /\ req.calls = <<>>

\* C15: the createdAt of every stored payload is the one written by the first
\* save of its item, whatever updates followed.
C15_CreatedNeverChanges ==
  \A k \in DOMAIN store : store[k].doc.created = store[k].born

\* C16: a stored payload has modifiedAt exactly when it was written by update.
C16_ModifiedIffUpdated ==
  \A k \in DOMAIN store :
    (store[k].doc.modified # NoTime) <=> (store[k].writer = "update")

\* An item was saved and then updated.
C16_Witness ==
  \E k \in DOMAIN store :
    /\ store[k].writer = "update"
    /\ store[k].doc.modified # NoTime
    /\ store[k].born # NoTime.v

\* The store answered the item request of the last operation with a failure.
StoreFailed == req.reply.kind \in {"unsuccessful", "rejected"}

\* C17: when the create, update, delete or search call of the store reports
\* failure, the operation ends with an error that carries the message of the
\* store; it returns no normal result.
C17_StoreFailureAborts ==
  (result.op \in {"save", "update", "delete", "list"} /\ StoreFailed)
    => /\ result.status \in {"StoreOperationFailed", "RequestFailed"}
       /\ Truthy(req.reply.msg) => req.msg = req.reply.msg
       /\ Truthy(req.msg)
       /\ req.out = <<>>

\* An update the store refused with a message of its own.
C17_Witness ==
  /\ result.op = "update" /\ StoreFailed
  /\ req.reply.msg = "m1" /\ req.msg = "m1"
  /\ \E k \in DOMAIN store : store[k].writer = "save"

\* C18: within one operation each request to the store is issued at most once,
\* and a failed request ends the operation with an error.
C18_NoRetry ==
  /\ \A kind \in ItemCalls : Count(req.calls, kind) <= 1
  /\ Cardinality(Range(req.calls) \cap ItemCalls) <= 1
  /\ StoreFailed => result.status \in {"StoreOperationFailed", "RequestFailed"}
  /\ (result.op = "load" /\ StoreFailed) => ld.pc = "Failed"

\* A delete the store refused.
C18_Witness ==
  /\ result.op = "delete" /\ StoreFailed
  /\ Count(req.calls, "delete") = 1

\* C20: without an authenticated user every operation fails with Unauthenticated
\* before it issues any item request and before it changes the live map.
C20_UnauthenticatedBeforeAnything ==
  (result.op # "none" /\ ~req.authed)
    => /\ result.status = "Unauthenticated"
       /\ Range(req.calls) \cap ItemCalls = {}
       /\ map = pre.map /\ camera = pre.camera

\* A load was refused for want of a user, on a map that a load would change.
C20_Witness ==
  /\ result.op = "load" /\ ~req.authed
  /\ ld.pc = "Failed"
  /\ \E k \in DOMAIN store : store[k].doc.mapSession.layers # <<>>

\* The config with null written in every optional field it does not have.
WithNulls(cfg) ==
  [cfg EXCEPT
     !.url = IF @ = Absent THEN Null ELSE @,
     !.renderer = IF @ = Absent THEN Null ELSE @,
     !.definitionExpression = IF @ = Absent THEN Null ELSE @]

\* C19: a payload with null in an optional field is restored exactly like the
\* payload without the field: the config the load is about to restore leaves the
\* same layers whether its missing url, renderer and definitionExpression are
\* absent or null.
C19_NullIsAbsent ==
  (ld.pc = "ReconcilingLayers" /\ ld.i >= 1)
    => LET cfg == ld.payload.mapSession.layers[ld.i]
       IN restoreLayerConfig(map.layers, WithNulls(cfg), down)
            = restoreLayerConfig(map.layers, cfg, down)

(***************************************************************************)
(* One turn of the loop over mapSession.layers, seen from outside: the     *)
(* config it restores and the live layers before and after (ids are unique *)
(* among the live layers).                                                 *)
(***************************************************************************)
RestoringCfg == ld.pc = "ReconcilingLayers" /\ ld.i >= 1

TurnCfg == ld.payload.mapSession.layers[ld.i]

IdMatches(layers, cfg) == {l \in Range(layers) : l.id = cfg.id}

UrlMatches(layers, cfg) == {l \in Range(layers) : Truthy(cfg.url) /\ l.url = cfg.url}

\* The turn went through without an error of the host.
TurnPassed == ld'.pc # "Failed"

\* The layers that the turn created or changed.
TurnTouched == Range(map'.layers) \ Range(map.layers)

\* C21: restoreLayerConfig resolves a config by id, then by url, then by
\* construction: with a live layer of the config's id that layer is the one used
\* (it gets the config's visibility and opacity, no other layer changes, none is
\* added); without one, only a layer of the config's url is used; a layer is
\* added only when neither exists and the config has a url.
C21_ResolvesIdThenUrlThenNew ==
  [][RestoringCfg =>
       LET cfg == TurnCfg
           byId == IdMatches(map.layers, cfg)
           byUrl == UrlMatches(map.layers, cfg)
       IN /\ byId # {} =>
               /\ Len(map'.layers) = Len(map.layers)
               /\ \A l \in TurnTouched : l.id = cfg.id
               /\ TurnPassed =>
                    \E l \in Range(map'.layers) :
                      l.id = cfg.id /\ l.visible = cfg.visible /\ l.opacity = cfg.opacity
          /\ (byId = {} /\ byUrl # {}) =>
               /\ Len(map'.layers) = Len(map.layers)
               /\ \A l \in TurnTouched : l.url = cfg.url
               /\ TurnPassed =>
                    \E l \in Range(map'.layers) :
                      l.url = cfg.url /\ l.visible = cfg.visible /\ l.opacity = cfg.opacity
          /\ Len(map'.layers) > Len(map.layers) =>
               byId = {} /\ byUrl = {} /\ Truthy(cfg.url)]_vars

\* The first config was resolved by its id although an earlier live layer has
\* its url; that layer is as the load found it.
C21_Witness ==
  /\ ld.pc \in {"ReconcilingLayers", "Done"} /\ ld.i >= 2
  /\ LET cfg == ld.payload.mapSession.layers[1]
     IN /\ Truthy(cfg.url)
        /\ \E i, j \in DOMAIN pre.map.layers :
             /\ i < j
             /\ pre.map.layers[i].url = cfg.url /\ pre.map.layers[i].id # cfg.id
             /\ pre.map.layers[j].id = cfg.id
             /\ pre.map.layers[i] \in Range(map.layers)
             /\ pre.map.layers[j] \notin Range(map.layers)

\* C22: a config that matches no live layer and whose kind is neither feature
\* nor map-image, or that has no url, adds nothing to the map: the turn logs the
\* layer as missing, leaves every live layer as it is and goes on to the next
\* config (or ends the load normally after the last one).
C22_UnreconstructibleIsSkipped ==
  [][(/\ RestoringCfg
      /\ IdMatches(map.layers, TurnCfg) = {}
      /\ UrlMatches(map.layers, TurnCfg) = {}
      /\ (TurnCfg.type \notin {"feature", "map-image"} \/ ~Truthy(TurnCfg.url)))
       => /\ map'.layers = map.layers
          /\ warns' = Append(warns, Warn("missing", TurnCfg.id))
          /\ ld'.i = ld.i + 1
          /\ ld'.pc = IF ld.i < Len(ld.payload.mapSession.layers)
                      THEN "ReconcilingLayers" ELSE "Done"]_vars

\* A load ended normally whose first config, a tile layer with a url that no
\* live layer had, was skipped and whose second config was restored.
C22_Witness ==
  /\ ld.pc = "Done"
  /\ Len(ld.payload.mapSession.layers) = 2
  /\ LET cfg == ld.payload.mapSession.layers[1]
         next == ld.payload.mapSession.layers[2]
     IN /\ cfg.type = "tile" /\ Truthy(cfg.url)
        /\ IdMatches(pre.map.layers, cfg) = {}
        /\ UrlMatches(pre.map.layers, cfg) = {}
        /\ Warn("missing", cfg.id) \in Range(warns)
        /\ IdMatches(map.layers, cfg) = {}
        /\ \E l \in Range(map.layers) : l.id = next.id /\ l.opacity = next.opacity

\* The removal loop of a load whose payload has a layers array is about to run.
RemovalTurn ==
  ld.pc = "ReconcilingLayers" /\ ld.i = 0 /\ ld.payload.mapSession.hasLayers

\* The live layer has neither the id nor the url of any config of the payload.
Unmatched(l) ==
  /\ \A c \in Range(ld.payload.mapSession.layers) : c.id # l.id
  /\ ~(Truthy(l.url) /\ \E c \in Range(ld.payload.mapSession.layers) : c.url = l.url)

\* C23, as stated: the removal step removes a live layer if and only if neither
\* its id nor its url is that of a payload config.
C23_RemovedIffUnmatched ==
  [][RemovalTurn =>
       \A l \in Range(map.layers) : (l \notin Range(map'.layers)) <=> Unmatched(l)]_vars

\* C23, amended: the removal step removes only layers that match no config by id
\* or url, keeps every other layer as it is, and removes each unmatched layer
\* unless its removal by the host fails, which is logged and leaves the layer.
C23_RemovedIffUnmatchedOrStuck ==
  [][RemovalTurn =>
       /\ Range(map'.layers) \subseteq Range(map.layers)
       /\ \A l \in Range(map.layers) :
            /\ l \notin Range(map'.layers) => Unmatched(l)
            /\ Unmatched(l) =>
                 \/ l \notin Range(map'.layers)
                 \/ Warn("remove", l.id) \in Range(warns')
            /\ Warn("remove", l.id) \in Range(warns') => l \in Range(map'.layers)]_vars

\* The removal loop has just run without a failure: it removed a layer that
\* matched nothing and kept one that has the url, but not the id, of a config.
C23_Witness ==
  /\ ld.pc = "ReconcilingLayers" /\ ld.i = 1
  /\ "remove" \notin faults
  /\ \E l \in Range(pre.map.layers) : Unmatched(l) /\ l \notin Range(map.layers)
  /\ \E l \in Range(pre.map.layers) :
       /\ l \in Range(map.layers)
       /\ \A c \in Range(ld.payload.mapSession.layers) : c.id # l.id
       /\ \E c \in Range(ld.payload.mapSession.layers) :
            c.url = l.url /\ c.opacity # l.opacity

\* The layer classes that have a renderer of their own.
SupportsStyling(layer) == layer.type = "feature"

\* C24: a resolved layer gets its properties in the order renderer, visibility,
\* opacity, definitionExpression and is repositioned after them: a turn that fails
\* at the renderer has applied nothing else, a turn that passes has applied them
\* all; the renderer changes only when the config has one and the layer supports
\* styling, definitionExpression only when the config defines it and the layer
\* supports it.
C24_PropertiesAppliedInOrderWhenSupported ==
  [][RestoringCfg =>
       \A o \in IdMatches(map.layers, TurnCfg), n \in IdMatches(map'.layers, TurnCfg) :
         /\ n.renderer # o.renderer
              => Truthy(TurnCfg.renderer) /\ SupportsStyling(o)
         /\ n.definitionExpression # o.definitionExpression
              => TurnCfg.definitionExpression # Absent /\ HasDefinitionExpression(o)
         /\ ~TurnPassed => map'.layers = map.layers
         /\ TurnPassed =>
              /\ n.visible = TurnCfg.visible /\ n.opacity = TurnCfg.opacity
              /\ (TurnCfg.definitionExpression # Absent /\ HasDefinitionExpression(o))
                   => n.definitionExpression = TurnCfg.definitionExpression]_vars

\* The ids of the first n layers, in display order.
IdsOf(layers, n) == [i \in 1..n |-> layers[i].id]

\* C25: a config without an order repositions nothing: after its turn the live
\* layers that were there before are in the places they had.
C25_NoOrderKeepsPosition ==
  [][(RestoringCfg /\ TurnCfg.order = NoOrder)
       => IdsOf(map'.layers, Len(map.layers)) = IdsOf(map.layers, Len(map.layers))]_vars

\* The stored items written by a save or an update of this run: the document
\* and the live map it was captured from are both known.
Captured == {k \in DOMAIN store : store[k].src # NoSource}

\* The place (1-based) of the live layer of that id, 0 when there is none.
PlaceOf(layers, id) ==
  IF \E i \in DOMAIN layers : layers[i].id = id
  THEN CHOOSE i \in DOMAIN layers : layers[i].id = id
  ELSE 0

\* C26: the configs of a captured document are in the display order of the live
\* layers, and the order of each is the index its layer had in the live list.
C26_OrderIsCapturePosition ==
  \A k \in Captured :
    LET cfgs == store[k].doc.mapSession.layers
        live == store[k].src.map.layers
    IN /\ \A j \in DOMAIN cfgs :
            cfgs[j].order = Order(PlaceOf(live, cfgs[j].id) - 1)
       /\ \A i, j \in DOMAIN cfgs :
            i < j => PlaceOf(live, cfgs[i].id) < PlaceOf(live, cfgs[j].id)

\* A document captured from a map whose layers the user had put in another order.
C26_Witness ==
  \E k \in Captured :
    LET cfgs == store[k].doc.mapSession.layers
    IN /\ Len(cfgs) >= 2
       /\ cfgs[1].id = "b" /\ cfgs[1].order = Order(0)
       /\ cfgs[2].order = Order(1)

\* C27: when the extraction of some live layers fails, exactly those layers are
\* left out: every other layer has its config, in the same relative order, and
\* the save itself goes through.
C27_FailedLayerAloneOmitted ==
  /\ \A k \in Captured :
       LET cfgs == store[k].doc.mapSession.layers
           live == store[k].src.map.layers
           rest == DOMAIN live \ store[k].src.failed
       IN /\ Len(cfgs) = Cardinality(rest)
          /\ {PlaceOf(live, c.id) : c \in Range(cfgs)} = rest
          /\ \A i, j \in DOMAIN cfgs :
               i < j => PlaceOf(live, cfgs[i].id) < PlaceOf(live, cfgs[j].id)
  /\ (result.op \in {"save", "update"} /\ faults = {"extract"}) => result.status = "ok"

\* A document captured while the extraction of the first of two layers failed.
C27_Witness ==
  \E k \in Captured :
    /\ store[k].src.failed = {1}
    /\ Len(store[k].src.map.layers) = 2
    /\ Len(store[k].doc.mapSession.layers) = 1
    /\ store[k].doc.mapSession.layers[1].id = store[k].src.map.layers[2].id

\* The layers of a live basemap that can be described: those with a url whose
\* properties can be read.
Describable(ls) == SelectSeq(ls, LAMBDA l : Truthy(l.url) /\ l.type # "broken")

UrlsOf(ls) == [i \in DOMAIN ls |-> ls[i].url]

\* C28: every layer info of a captured snapshot has a non-empty url: the basemap
\* layers without a url and those whose serialization fails are left out, the
\* others are there in their order, in baseLayers and in referenceLayers.
C28_SnapshotLayersHaveUrl ==
  \A k \in Captured :
    LET snap == store[k].doc.mapSession.basemapSnapshot
        live == store[k].src.map.basemap
    IN snap.present =>
         /\ \A info \in Range(snap.baseLayers) \cup Range(snap.referenceLayers) :
              Truthy(info.url)
         /\ UrlsOf(snap.baseLayers) = UrlsOf(Describable(live.baseLayers))
         /\ UrlsOf(snap.referenceLayers) = UrlsOf(Describable(live.referenceLayers))

\* A document captured from a basemap with a layer without url and a layer that
\* cannot be serialized between two layers that can.
C28_Witness ==
  \E k \in Captured :
    LET snap == store[k].doc.mapSession.basemapSnapshot
        live == store[k].src.map.basemap
    IN /\ Len(live.baseLayers) = 4
       /\ live.baseLayers[2].url = "" /\ live.baseLayers[3].type = "broken"
       /\ UrlsOf(snap.baseLayers) = <<"t1", "t2">>
       /\ UrlsOf(snap.referenceLayers) = <<"r1">>

\* The rebuild from layer descriptors was the last rung the load attempted.
RebuildTried ==
  /\ PastBasemap
  /\ ld.tried # <<>> /\ ld.tried[Len(ld.tried)] = "rebuild"

\* The base-layer descriptors of the payload that a layer can be made of.
GoodBase ==
  SelectSeq(ld.payload.mapSession.basemapSnapshot.baseLayers,
            LAMBDA info : info.url # "bad")

\* C29: the rebuild rung yields a basemap only if at least one base layer was
\* reconstructed: when it was the last rung attempted, a basemap was restored
\* exactly when some base descriptor could be constructed, and it has one base
\* layer per such descriptor; a snapshot without a constructible base descriptor
\* (reference descriptors only, or all failing) gives a basemap only through the
\* catalog id or the well-known id.
C29_RebuildNeedsABaseLayer ==
  /\ RebuildTried =>
       /\ NoBasemapRestored <=> GoodBase = <<>>
       /\ ~NoBasemapRestored => Len(map.basemap.baseLayers) = Len(GoodBase)
       /\ NoBasemapRestored => map.basemap = pre.map.basemap
  /\ (/\ PastBasemap /\ ld.payload.mapSession.basemapSnapshot.present
      /\ GoodBase = <<>> /\ ~NoBasemapRestored)
       => \/ Truthy(map.basemap.portalItemId)
          \/ map.basemap.id \in WellKnownIds

\* The rebuild rung ran on descriptors that all failed and restored nothing.
C29_Witness ==
  /\ RebuildTried /\ ld.pc = "Done"
  /\ Len(ld.payload.mapSession.basemapSnapshot.baseLayers) > 0
  /\ GoodBase = <<>>
  /\ NoBasemapRestored
  /\ map.basemap = pre.map.basemap /\ map.basemap # NoBasemap

\* The kind of layer the spec gives a descriptor.
KindFor(type) ==
  IF type \in {"tile", "vector-tile", "web-tile", "map-image"} THEN type ELSE "tile"

\* C30: each descriptor is reconstructed as a layer of its own kind for tile,
\* vector-tile, web-tile and map-image, and as a tile layer for any other kind:
\* the base layers of a rebuilt basemap have the kinds of their descriptors.
C30_LayerOfDescriptorKind ==
  (RebuildTried /\ ~NoBasemapRestored)
    => \A i \in DOMAIN GoodBase :
         map.basemap.baseLayers[i].type = KindFor(GoodBase[i].type)

\* The ids of the live layers.
LiveIds(layers) == {l.id : l \in Range(layers)}

\* C31: the configs of a payload are restored one at a time, in payload order,
\* after all removals: the removal turn only takes layers away; each later turn
\* takes none away, creates or changes only a layer of the id or url of its own
\* config, and hands over to the config that follows it (or ends the load).
C31_OneConfigAtATime ==
  [][ld.pc = "ReconcilingLayers" =>
       /\ ld.i = 0 =>
            /\ Range(map'.layers) \subseteq Range(map.layers)
            /\ ld'.i \in {0, 1}
       /\ ld.i >= 1 =>
            /\ LiveIds(map.layers) \subseteq LiveIds(map'.layers)
            /\ \A l \in TurnTouched :
                 l.id = TurnCfg.id \/ (Truthy(TurnCfg.url) /\ l.url = TurnCfg.url)
            /\ Len(map'.layers) <= Len(map.layers) + 1
            /\ \/ ld'.pc = "Failed" /\ ld'.i = ld.i
               \/ ld'.i = ld.i + 1]_vars

\* A load of two configs ended after a removal, a changed layer and a new layer.
C31_Witness ==
  /\ ld.pc = "Done" /\ ld.i = 3
  /\ Len(ld.payload.mapSession.layers) = 2
  /\ ld.created = 1
  /\ \E l \in Range(pre.map.layers) : l.id \notin LiveIds(map.layers)
  /\ \E l \in Range(pre.map.layers) :
       l.id \in LiveIds(map.layers) /\ l \notin Range(map.layers)

\* C32: two configs of one payload never resolve to the same live layer: when
\* two configs have different ids and the same url, and neither id was in the
\* map, a completed load leaves one live layer for each of them.
C32_EachConfigItsOwnLayer ==
  Completed =>
    \A i, j \in DOMAIN ld.payload.mapSession.layers :
      LET c == ld.payload.mapSession.layers[i]
          d == ld.payload.mapSession.layers[j]
      IN (/\ i < j /\ c.id # d.id
          /\ Truthy(c.url) /\ c.url = d.url /\ c.url \notin down
          /\ Reconstructible(c) /\ Reconstructible(d)
          /\ {c.id, d.id} \cap LiveIds(pre.map.layers) = {})
           => {c.id, d.id} \subseteq LiveIds(map.layers)

\* The rungs of the ladder, as recorded in ld.tried.
Rungs == {"portalItem", "fromId", "rebuild"}

\* C33: within one load each rung of the basemap ladder is attempted at most
\* once.
C33_EachRungAtMostOnce ==
  PastBasemap => \A rung \in Rungs : Count(ld.tried, rung) <= 1

\* C34: the live basemap is replaced only by a basemap whose load succeeded: a
\* basemap the load step put in the map is loaded.
C34_OnlyLoadedBasemapAssigned ==
  (PastBasemap /\ ~NoBasemapRestored) => map.basemap.loaded

\* C35: save, update, list and delete never change the live map: whether they
\* succeed or fail, the basemap, the camera and the operational layers with all
\* their properties are after the call what they were before it.
C35_StoreOperationsLeaveMap ==
  [][(Quiet /\ result'.op \in {"save", "update", "list", "delete"})
       => map' = map /\ camera' = camera]_vars

\* An update went through although the extraction of a layer failed, on a map of
\* two layers that is as it was.
C35_Witness ==
  /\ result.op = "update" /\ result.status = "ok"
  /\ "extract" \in faults
  /\ Len(map.layers) = 2 /\ map = pre.map /\ camera = pre.camera
  /\ \E l \in Range(map.layers) : l.visible

DistinctIds(layers) == Cardinality(LiveIds(layers)) = Len(layers)

DistinctCfgIds(cfgs) == \A i, j \in DOMAIN cfgs : cfgs[i].id = cfgs[j].id => i = j

\* The turn of cfg put one more layer on the map.
TurnAdded == RestoringCfg /\ Len(map'.layers) > Len(map.layers)

\* C36: no two live operational layers ever have the same id, whatever loads
\* ran on the map, and a turn of the restore loop adds a layer only when no live
\* layer has the config's id and none has its url.
C36_NoTwoLiveLayersShareAnId ==
  /\ []DistinctIds(map.layers)
  /\ [][TurnAdded =>
          /\ TurnCfg.id \notin LiveIds(map.layers)
          /\ \A l \in Range(map.layers) : l.url # TurnCfg.url
          /\ LiveIds(map'.layers) = LiveIds(map.layers) \cup {TurnCfg.id}]_vars

\* A load of two configs with distinct ids finished on a map that had a layer:
\* one config made a layer, the other found its own, and the ids are distinct.
C36_Witness ==
  /\ Completed /\ result = [op |-> "load", status |-> "ok"]
  /\ Len(ld.payload.mapSession.layers) = 2
  /\ DistinctCfgIds(ld.payload.mapSession.layers)
  /\ ld.created = 1
  /\ Len(pre.map.layers) >= 1
  /\ Len(map.layers) >= 2
  /\ DistinctIds(map.layers)

\* A load that went through all its steps, whatever the payload's layers are.
Through == Fetched /\ ld.pc = "Done" /\ ld.payload.valid = "true"

\* C37, as stated: a payload whose layers field is not a list leaves every live
\* operational layer in place, and a payload whose layers field is the empty
\* list removes every live operational layer.
C37_AbsentKeepsEmptyRemoves ==
  LET ms == ld.payload.mapSession
  IN /\ (Fetched /\ ld.payload.valid = "true" /\ ~ms.hasLayers)
          => map.layers = pre.map.layers
     /\ (Through /\ ms.hasLayers /\ ms.layers = <<>>) => map.layers = <<>>

\* C37, amended: without a list every live layer stays as it is; with the empty
\* list every live layer is removed, except those whose removal by the host
\* failed, which is logged and leaves the layer in the map.
C37_AbsentKeepsEmptyRemovesOrStuck ==
  LET ms == ld.payload.mapSession
  IN /\ (Fetched /\ ld.payload.valid = "true" /\ ~ms.hasLayers)
          => map.layers = pre.map.layers
     /\ (Through /\ ms.hasLayers /\ ms.layers = <<>>) =>
          /\ Range(map.layers) \subseteq Range(pre.map.layers)
          /\ \A l \in Range(pre.map.layers) :
               l \in Range(map.layers) <=> Warn("remove", l.id) \in Range(warns)

\* A load with the empty list emptied a map of two layers.
C37_Witness ==
  /\ Through /\ ld.payload.mapSession.hasLayers
  /\ ld.payload.mapSession.layers = <<>>
  /\ Len(pre.map.layers) >= 2 /\ map.layers = <<>>
  /\ faults = {}

\* A load without a list went through on a map with a layer, which stayed.
C37_WitnessAbsent ==
  /\ Through /\ ~ld.payload.mapSession.hasLayers
  /\ Len(pre.map.layers) >= 1 /\ map.layers = pre.map.layers

\* C38: in the widget a session leaves the displayed list only when
\* deleteMapSession succeeded: after a delete that failed, the list still has the
\* session it had.
C38_ListKeepsSessionWhenDeleteFails ==
  (widget.done.kind = "delete" /\ ~widget.done.ok /\ widget.done.listed)
    => widget.done.id \in ShownIds(widget)

\* C39: the loading flag of the widget is set whenever a call of run has not
\* returned.
C39_LoadingWhileInFlight == InFlight(widget) > 0 => widget.loading

====
